---- MODULE Spec2Model ----
(***************************************************************************)
(* A model of the ontology-building pipeline of clue-agent:                *)
(*   - the SQLite search cache (ontology_services/db.py, storage.py),      *)
(*   - the concept merger and the iteration controller of the LangGraph    *)
(*     pipeline (src/agent_ont/tools_agent_v2.py).                         *)
(*   - the HTTP helpers with retry (tools_agent_v2.py, http_client.py).    *)
(*   - the concept snapshots written by validate_and_persist               *)
(*     (ontology_server.py) and by the ontology tree builder               *)
(*     (ontology_services/ontology_builder.py).                            *)
(* The specifications share the variables: SpecCache drives the cache      *)
(* operations, SpecMerge drives merge_concepts alone on hand-picked        *)
(* candidates, SpecRun drives whole runs of the graph, SpecHttp drives one *)
(* call of an HTTP helper.                                                 *)
(***************************************************************************)
EXTENDS Integers, Sequences, FiniteSets, TLC

VARIABLES
    \* ---- the cache store (db.py) ----
    searches,         \* rows of table searches, in id order
    results,          \* rows of table results (a set: the row id is not modelled)
    extractions,      \* rows of table extractions, in id order
    sqlite_sequence,  \* AUTOINCREMENT high-water mark of each table
    lastCall,         \* history: the last cache call, with len(items) and its return value
    changed,          \* history: the last call changed table results
    now,              \* the database clock, in whole seconds (CURRENT_TIMESTAMP)
    lastRead,         \* history: what the last read of the cache returned
    \* ---- the graph state dict and the graph's position (tools_agent_v2.py) ----
    pc,               \* the node that runs next, or "END" / an error label
    steps,            \* supersteps taken so far by graph.invoke
    max_iters,
    min_concepts,
    iteration,
    tried_queries,
    current_queries,
    run_results,      \* state["results"]
    summaries,
    candidates,
    ontology,         \* state["ontology"]["concepts"]
    delta_concepts,
    stop,
    persisted,        \* history: what each completed persist_iteration wrote, in order
    outdir,           \* the files of the output directory: name -> content
    final_ontology,   \* the final_ontology file __main__ writes after graph.invoke
    observed,         \* history: what each observe saw: iteration, concept count, stop
    merged,           \* history: the candidate batches handed to merge_concepts, in order
    before,           \* history: state["ontology"]["concepts"] when the last merge began
    fuel,             \* the most queries the planner yields over the run
    \* ---- one call of _http_get or http_get ----
    http_fn,          \* the helper called
    http_max,         \* NCBI_MAX_RETRIES, or the argument retries
    http_pc,          \* "idle", "loop", "returned" or "raised"
    http_retry,       \* the local retry, or the loop index attempt
    http_log,         \* history: what each request of the call was answered with
    http_waits,       \* history: the sleep before each retry of the call, in ms
    http_slept,       \* ms slept since the latest request was sent
    http_gap,         \* history: <<ms slept between the latest request and the one
                      \* before it>>, empty for the first request ever sent
    http_calls,       \* calls of the helper begun so far
    http_out,         \* what the call returned or raised
    \* ---- one call of search_pubmed ----
    pm_pc,            \* "idle", "esearch", "efetch", "returned" or "raised"
    pm_k,             \* the argument k
    pm_ids,           \* ids: the id list of the esearch answer
    pm_i,             \* the loop variable i of the efetch loop
    pm_results,       \* the local list results
    pm_out,           \* what the call returned or raised
    \* ---- concurrent calls of bulk_insert_results, each on its own connection ----
    writers,          \* per writer: position, arguments, its transaction's view, rowcount
    lock,             \* the writer holding the database's write lock, 0 when free
    \* ---- the concept snapshots on disk (ontology_server.py, ontology_builder.py) ----
    concepts_file,    \* <DATA_ROOT>/<dataset>/concepts.json
    ontology_file,    \* <DATA_ROOT>/<dataset>/ontology.json
    run_dirs,         \* <DATA_ROOT>/<dataset>/runs/<utc second>/validated.json, by second
    vp_in,            \* history: the argument of the last validate_and_persist call
    vp_out,           \* history: what the last validate_and_persist call answered
    versions,         \* ontology_versions/ontology_<utc second>.json, by second
    \* ---- one call of node_validate_or_repair (agent_lg/nodes.py) ----
    vr_pc,            \* "idle", "loop", "returned" or "raised"
    max_repairs,      \* config["max_repairs"]
    repair_attempt,   \* the local attempt
    last_err,         \* the local last_err
    candidate_json,   \* state.candidate_json
    final_json,       \* state.final_json
    error,            \* state.error
    \* ---- the MCP tools' helpers execute_search and run_extraction ----
    tool_out          \* history: the last call's arguments and what it answered

cacheVars == <<searches, results, extractions, sqlite_sequence, lastCall, changed,
               now, lastRead>>
runVars == <<pc, steps, max_iters, min_concepts, iteration, tried_queries, current_queries,
             run_results, summaries, candidates, ontology, delta_concepts, stop,
             persisted, outdir, final_ontology, observed, merged, before, fuel>>
httpVars == <<http_fn, http_max, http_pc, http_retry, http_log, http_out,
              http_waits, http_slept, http_gap, http_calls>>
pmVars == <<pm_pc, pm_k, pm_ids, pm_i, pm_results, pm_out>>
wrVars == <<writers, lock>>
snapVars == <<concepts_file, ontology_file, run_dirs, vp_in, vp_out, versions>>
repairVars == <<vr_pc, max_repairs, repair_attempt, last_err, candidate_json, final_json, error>>
toolVars == <<tool_out>>
vars == <<cacheVars, runVars, httpVars, pmVars, wrVars, snapVars, repairVars, toolVars>>

\* Python's None (a key that is missing reads as None through dict.get).
None == "<None>"

OrEmptyMutantKeep(x) == x

\* `x or ""` for a string or None.
OrEmpty(x) == IF x = None \/ x = "" THEN "" ELSE x

RECURSIVE SeqToSet(_)
SeqToSet(s) == IF s = <<>> THEN {} ELSE {Head(s)} \cup SeqToSet(Tail(s))

\* All sequences over S of length at most n.
SeqsUpTo(S, n) == UNION {[1..k -> S] : k \in 0..n}

\* Strings the code takes apart are tuples of characters.
UpperCase == <<"A", "B", "C", "D", "E", "F", "G", "H", "I", "J", "K", "L", "M",
               "N", "O", "P", "Q", "R", "S", "T", "U", "V", "W", "X", "Y", "Z">>
LowerCase == <<"a", "b", "c", "d", "e", "f", "g", "h", "i", "j", "k", "l", "m",
               "n", "o", "p", "q", "r", "s", "t", "u", "v", "w", "x", "y", "z">>
Digits == {"0", "1", "2", "3", "4", "5", "6", "7", "8", "9"}

\* str.lower() of one character
Lower(ch) ==
    IF \E i \in 1..Len(UpperCase) : UpperCase[i] = ch
    THEN LowerCase[CHOOSE i \in 1..Len(UpperCase) : UpperCase[i] = ch]
    ELSE ch

\* str.isalnum() of one character
IsAlnum(ch) == ch \in SeqToSet(UpperCase) \cup SeqToSet(LowerCase) \cup Digits

(***************************************************************************)
(*        CONCEPT OBJECTS (ontology_server.py, ontology_builder.py)        *)
(***************************************************************************)

\* A JSON value found where a list is expected: a list, null, or a number
\* other than zero.
List(xs) == [tag |-> "list", list |-> xs]
Null == [tag |-> "null", list |-> <<>>]
Number == [tag |-> "int", list |-> <<>>]

Fields == <<"name", "definition", "synonyms", "concept_type", "positives", "negatives",
            "magnifications">>

\* A concept object: has holds the keys present; name and the synonyms are
\* tuples of characters; id is set by normalize_items only. The text of the
\* definition is left out.
Concept(name, synonyms, concept_type, positives, negatives, magnifications) ==
    [has |-> SeqToSet(Fields), name |-> name, synonyms |-> synonyms,
     concept_type |-> concept_type, positives |-> positives, negatives |-> negatives,
     magnifications |-> magnifications, id |-> <<>>]

Without(item, field) == [item EXCEPT !.has = @ \ {field}]

ALLOWED_TYPES == {"class", "compartment", "morphology", "interface", "substructure"}
ALLOWED_MAGS == {"10x", "20x", "40x"}

Carcinoma == <<"c", "a", "r", "c", "i", "n", "o", "m", "a">>
Metastasis == <<"m", "e", "t", "a", "s", "t", "a", "s", "i", "s">>
Benign == <<"b", "e", "n", "i", "g", "n">>

BASE_ONTOLOGY_TREE ==
    << Concept(<<"T", "u", "m", "o", "r">>, <<Carcinoma, Metastasis>>, "class",
               List(<<"cohesive epithelial islands", "nuclear atypia", "mitoses",
                      "peripheral palisading">>),
               List(<<"adipocytes", "dense collagen stroma", "lymphoid follicles">>),
               List(<<"20x", "40x">>)),
       Concept(<<"N", "o", "r", "m", "a", "l">>, <<Benign>>, "class",
               List(<<"ordered lymphoid follicles", "mature adipocytes",
                      "regular stromal collagen">>),
               List(<<"malignant epithelial clusters", "necrosis">>),
               List(<<"10x", "20x">>)) >>

\* run_extraction's content["extraction"] when no payload is given:
\* {field: [] if field.endswith("s") else "" for field in ONT_KEY_FIELDS}
EmptyExtraction == Concept(<<>>, <<>>, "", List(<<>>), List(<<>>), List(<<>>))

\* content["extraction"] as JSON: an object, a list whose entries are objects
\* or not, or anything else.
Object(item) == [isdict |-> TRUE, item |-> item]
PayloadDict(item) == [kind |-> "dict", entries |-> <<Object(item)>>]

(***************************************************************************)
(*                      THE SEARCH CACHE (db.py)                           *)
(***************************************************************************)

\* ---- inputs ----
MaxItems == 2        \* longest items list handed to bulk_insert_results
MaxExtractions == 1  \* most extraction rows inserted

Keywords == {"k1"}
Sources == {"pubmed"}
SearchIds == {1, 2}
MaxSearches == Cardinality(SearchIds)

\* Result items as the providers build them: title and url may be missing or null.
\* The last two are different items with the same stored title and url: one leaves
\* both out (dict.get reads None), the other gives both as the empty string.
ItemPool ==
    { [title |-> "a",  url |-> None, snippet |-> "s1"],
      [title |-> None, url |-> None, snippet |-> "s1"],
      [title |-> "",   url |-> "",   snippet |-> "s2"] }

ItemLists == SeqsUpTo(ItemPool, MaxItems)

\* ---- bulk_insert_results ----

\* The tuple bulk_insert_results builds for one item (published and license are
\* built the same way as snippet and are left out; payload is json.dumps(item)).
Record(search_id, item) ==
    [search_id |-> search_id,
     title     |-> OrEmpty(item.title),
     url       |-> OrEmpty(item.url),
     snippet   |-> OrEmpty(item.snippet),
     payload   |-> item]

\* Equality as a UNIQUE index sees it: a NULL is distinct from every value,
\* from another NULL too.
SqlEq(a, b) == a # None /\ b # None /\ a = b

ConflictsMutantAcrossSearches(rows, rec) ==
    \E r \in rows : SqlEq(r.title, rec.title) /\ SqlEq(r.url, rec.url)

\* UNIQUE(search_id, title, url) of table results.
Conflicts(rows, rec) ==
    \E r \in rows :
        /\ r.search_id = rec.search_id
        /\ SqlEq(r.title, rec.title)
        /\ SqlEq(r.url, rec.url)

InsertOrIgnoreMutantAlways(tbl, rec) ==
    [rows  |-> tbl.rows \cup {rec},
     seq   |-> tbl.seq + 1,
     count |-> tbl.count + 1]

\* One INSERT OR IGNORE: tbl is [rows, seq, count].
InsertOrIgnore(tbl, rec) ==
    IF Conflicts(tbl.rows, rec)
    THEN tbl
    ELSE [rows  |-> tbl.rows \cup {rec},
          seq   |-> tbl.seq + 1,
          count |-> tbl.count + 1]

\* cursor.executemany: the statement once per record, rowcount summed.
RECURSIVE ExecuteMany(_, _, _)
ExecuteMany(tbl, search_id, items) ==
    IF items = <<>> THEN tbl
    ELSE ExecuteMany(InsertOrIgnore(tbl, Record(search_id, Head(items))),
                     search_id, Tail(items))

BulkInsert(rows, seq, search_id, items) ==
    ExecuteMany([rows |-> rows, seq |-> seq, count |-> 0], search_id, items)

BulkInsertResults(search_id, items) ==
    LET out == BulkInsert(results, sqlite_sequence.results, search_id, items) IN
    /\ results' = out.rows
    /\ sqlite_sequence' = [sqlite_sequence EXCEPT !.results = out.seq]
    /\ lastCall' = [op |-> "bulk_insert_results", n |-> Len(items), ret |-> out.count]
    /\ changed' = (out.rows # results)
    /\ UNCHANGED <<searches, extractions, now, lastRead>>

NextRowidMutantFirst(seq) == 1

\* The id an INTEGER PRIMARY KEY AUTOINCREMENT column gives the next row: one
\* more than the largest id the table ever held.
NextRowid(seq) == seq + 1

\* ---- insert_search ----
InsertSearch(keyword, source) ==
    LET id == NextRowid(sqlite_sequence.searches) IN
    /\ Len(searches) < MaxSearches
    /\ searches' = Append(searches, [id |-> id, keyword |-> keyword, source |-> source,
                                     tool_name |-> "search", max_results |-> 5,
                                     requested_at |-> now])
    /\ sqlite_sequence' = [sqlite_sequence EXCEPT !.searches = id]
    /\ lastCall' = [op |-> "insert_search", n |-> 0, ret |-> id]
    /\ changed' = FALSE
    /\ UNCHANGED <<results, extractions, now, lastRead>>

\* ---- insert_extraction ----
InsertExtraction(search_id, keyword, extraction) ==
    LET id == sqlite_sequence.extractions + 1 IN
    /\ Len(extractions) < MaxExtractions
    /\ extractions' = Append(extractions, [id |-> id, search_id |-> search_id,
                                           extractor |-> "llm", keyword |-> keyword,
                                           extraction |-> extraction,
                                           created_at |-> now])
    /\ sqlite_sequence' = [sqlite_sequence EXCEPT !.extractions = id]
    /\ lastCall' = [op |-> "insert_extraction", n |-> 0, ret |-> id]
    /\ changed' = FALSE
    /\ UNCHANGED <<searches, results, now, lastRead>>

RecordResults == \E sid \in SearchIds, items \in ItemLists :
                    BulkInsertResults(sid, items) /\ UNCHANGED <<runVars, httpVars, pmVars, wrVars, snapVars, repairVars, toolVars>>
RecordSearch == \E k \in Keywords, s \in Sources :
                    InsertSearch(k, s) /\ UNCHANGED <<runVars, httpVars, pmVars, wrVars, snapVars, repairVars, toolVars>>
RecordExtraction == \E sid \in {1}, k \in Keywords :
                    InsertExtraction(sid, k, PayloadDict(EmptyExtraction)) /\ UNCHANGED <<runVars, httpVars, pmVars, wrVars, snapVars, repairVars, toolVars>>

InitCacheVars ==
    /\ searches = <<>>
    /\ results = {}
    /\ extractions = <<>>
    /\ sqlite_sequence = [searches |-> 0, results |-> 0, extractions |-> 0]
    /\ lastCall = [op |-> "none", n |-> 0, ret |-> 0]
    /\ changed = FALSE
    /\ now = 0
    /\ lastRead = [op |-> "none", keyword |-> "", source |-> "", listed |-> <<>>,
                   bundle |-> <<>>, picked |-> 0]

\* No HTTP helper has been called.
InitHttpVarsIdle ==
    /\ http_fn = "none"
    /\ http_max = 0
    /\ http_pc = "idle"
    /\ http_retry = 0
    /\ http_log = <<>>
    /\ http_waits = <<>>
    /\ http_slept = 0
    /\ http_gap = <<>>
    /\ http_calls = 0
    /\ http_out = [kind |-> "none"]

\* search_pubmed has not been called.
InitPmVarsIdle ==
    /\ pm_pc = "idle"
    /\ pm_k = 0
    /\ pm_ids = <<>>
    /\ pm_i = 0
    /\ pm_results = <<>>
    /\ pm_out = [kind |-> "none"]

Writers == {1, 2}

\* No concurrent writer has called.
NoFile == [exists |-> FALSE, items |-> <<>>]
File(items) == [exists |-> TRUE, items |-> items]

\* A JSON text: what json.loads makes of it, and the elements when it is a list.
JsonText(kind, list, items) == [kind |-> kind, list |-> list, items |-> items]

\* state.candidate_json and state.final_json before they are assigned.
NoJson == JsonText("None", FALSE, <<>>)

\* search_id = None, and the id of no search.
NoId == 0

\* No tool helper has been called.
InitToolVarsIdle ==
    tool_out = [op |-> "none", keyword |-> <<>>, source |-> "", search_id |-> NoId,
                results |-> <<>>, raised |-> FALSE, status |-> "none", resolved |-> NoId,
                results_returned |-> 0, results_stored |-> 0, total_cached |-> 0]

\* The validate-or-repair node before it is called.
InitRepairVarsIdle ==
    /\ vr_pc = "idle"
    /\ max_repairs = 0
    /\ repair_attempt = 0
    /\ last_err = None
    /\ candidate_json = NoJson
    /\ final_json = NoJson
    /\ error = None

InitSnapVarsIdle ==
    /\ concepts_file = NoFile
    /\ ontology_file = NoFile
    /\ run_dirs = {}
    /\ vp_in = [array |-> TRUE, items |-> <<>>]
    /\ vp_out = [status |-> "none", errors |-> <<>>, count |-> 0]
    /\ versions = {}

InitWrVarsIdle ==
    /\ writers = [w \in Writers |->
                    [pc |-> "idle", search_id |-> 0, items |-> <<>>, rows |-> {}, count |-> 0]]
    /\ lock = 0

\* The graph state before graph.invoke; the cache specification leaves it there.
InitRunVarsIdle ==
    /\ pc = "idle"
    /\ steps = 0
    /\ max_iters = 3
    /\ min_concepts = 4
    /\ iteration = 0
    /\ tried_queries = <<>>
    /\ current_queries = <<>>
    /\ run_results = <<>>
    /\ summaries = <<>>
    /\ candidates = <<>>
    /\ ontology = <<>>
    /\ delta_concepts = {}
    /\ stop = FALSE
    /\ persisted = <<>>
    /\ outdir = <<>>
    /\ final_ontology = <<>>
    /\ observed = <<>>
    /\ merged = <<>>
    /\ before = <<>>
    /\ fuel = 0

(***************************************************************************)
(*            THE CONCEPT MERGER (tools_agent_v2.py, merge_concepts)       *)
(***************************************************************************)

\* Strings whose length or surrounding whitespace the code reads (names, texts)
\* are sequences of characters; " " is the whitespace character.
RECURSIVE LStrip(_)
LStrip(s) == IF s # <<>> /\ Head(s) = " " THEN LStrip(Tail(s)) ELSE s

RECURSIVE RStrip(_)
RStrip(s) == IF s # <<>> /\ s[Len(s)] = " " THEN RStrip(SubSeq(s, 1, Len(s) - 1)) ELSE s

\* str.strip()
Strip(s) == RStrip(LStrip(s))

class_name == "cls"

\* The fields merge_concepts reads from a candidate.  A field that is missing,
\* null or empty is the empty sequence: `c.get(..) or ""` and `c.get(..) or []`
\* read the three alike.
CandName(c) == Strip(c.name_snake)
CandText(c) == Strip(c.text)
CandMags(c) == c.mags
CandApplies(c) == IF c.applies_to = <<>> THEN <<class_name>> ELSE c.applies_to
CandEvidence(c) == [title |-> c.origin_title, url |-> c.origin_url]

\* `if not name or not text or not mags: continue`
AcceptedMutantAnyText(c) == CandName(c) # <<>> /\ CandMags(c) # <<>>

\* not (`if not name or not text or not mags: continue`)
Accepted(c) == CandName(c) # <<>> /\ CandText(c) # <<>> /\ CandMags(c) # <<>>

KeepTextMutantNotLonger(old, new) == IF Len(new) <= Len(old) THEN new ELSE old

KeepTextMutantFirstWins(old, new) == old

\* `if text and len(text) < len(slot.get("text","")): slot["text"] = text`
KeepText(old, new) == IF new # <<>> /\ Len(new) < Len(old) THEN new ELSE old

UnionMagsMutantLastWins(old, mags) == SeqToSet(mags)

\* `sorted(list(set(slot["mags"]) | set(mags)))`: a sorted list without
\* duplicates, kept as the set of its elements.
UnionMags(old, mags) == old \cup SeqToSet(mags)

UnionAppliesMutantReplace(old, applies) == SeqToSet(applies)

\* `sorted(list(set(slot.get("applies_to", [])) | set(applies)))`
UnionApplies(old, applies) == old \cup SeqToSet(applies)

AddEvidenceMutantReplace(evidence, ev) == <<ev>>

\* `if ev["url"] or ev["title"]: slot["evidence"].append(ev)`
AddEvidence(evidence, ev) ==
    IF ev.url # "" \/ ev.title # "" THEN Append(evidence, ev) ELSE evidence

\* onto["concepts"].setdefault(name, {...})
SetDefault(onto, c) ==
    IF CandName(c) \in DOMAIN onto
    THEN onto[CandName(c)]
    ELSE [mags |-> {}, text |-> CandText(c),
          applies_to |-> SeqToSet(CandApplies(c)), evidence |-> <<>>]

\* One pass of the loop body for an accepted candidate: the updated slot.
MergeSlot(onto, c) ==
    LET slot == SetDefault(onto, c) IN
    [mags       |-> UnionMags(slot.mags, CandMags(c)),
     text       |-> KeepText(slot.text, CandText(c)),
     applies_to |-> UnionApplies(slot.applies_to, CandApplies(c)),
     evidence   |-> AddEvidence(slot.evidence, CandEvidence(c))]

\* One pass of the loop body: st is [onto, delta].
MergeOne(st, c) ==
    IF ~Accepted(c) THEN st
    ELSE [onto  |-> [n \in DOMAIN st.onto \cup {CandName(c)} |->
                        IF n = CandName(c) THEN MergeSlot(st.onto, c) ELSE st.onto[n]],
          delta |-> st.delta \cup {CandName(c)}]

\* The loop of merge_concepts over state["candidates"].
RECURSIVE MergeLoop(_, _)
MergeLoop(st, cands) ==
    IF cands = <<>> THEN st ELSE MergeLoop(MergeOne(st, Head(cands)), Tail(cands))

\* merge_concepts without the graph's bookkeeping.
MergeConceptsBody ==
    LET out == MergeLoop([onto |-> ontology, delta |-> {}], candidates) IN
    /\ ontology' = out.onto
    /\ delta_concepts' = out.delta
    /\ merged' = Append(merged, candidates)
    /\ before' = ontology

\* ---- MERGE driven alone, on hand-picked candidates ----
MaxMerged == 3     \* most candidates merged over a behaviour of SpecMerge

\* Three candidates of one identity "a" (the second written with surrounding
\* whitespace, the third without evidence and with a text as long as the
\* second's), one of identity "b", and one that merge_concepts rejects.
CandPool ==
    { [name_snake |-> <<"a">>, text |-> <<"x", "y">>, mags |-> <<"10x">>,
       applies_to |-> <<>>, origin_title |-> "t1", origin_url |-> "u1"],
      [name_snake |-> <<" ", "a">>, text |-> <<"x", " ">>, mags |-> <<"20x", "20x">>,
       applies_to |-> <<"other">>, origin_title |-> "t2", origin_url |-> ""],
      [name_snake |-> <<"a">>, text |-> <<"y">>, mags |-> <<"10x">>,
       applies_to |-> <<>>, origin_title |-> "", origin_url |-> ""],
      [name_snake |-> <<"b">>, text |-> <<"x", "y", "z">>, mags |-> <<"40x">>,
       applies_to |-> <<>>, origin_title |-> "t1", origin_url |-> "u1"],
      [name_snake |-> <<"a">>, text |-> <<" ">>, mags |-> <<"10x">>,
       applies_to |-> <<>>, origin_title |-> "t1", origin_url |-> "u1"] }

RECURSIVE Flatten(_)
Flatten(batches) ==
    IF batches = <<>> THEN <<>> ELSE Head(batches) \o Flatten(Tail(batches))

\* extract_terms leaves a new batch in state["candidates"].
GiveCandidates ==
    /\ pc = "give"
    /\ \E batch \in SeqsUpTo(CandPool, MaxMerged - Len(Flatten(merged))) :
        /\ batch # <<>>
        /\ candidates' = batch
    /\ pc' = "merge"
    /\ UNCHANGED <<steps, max_iters, min_concepts, iteration, tried_queries,
                   current_queries, run_results, summaries, ontology, delta_concepts,
                   stop, persisted, outdir, final_ontology, observed, merged, before, fuel>>
    /\ UNCHANGED <<cacheVars, httpVars, pmVars, wrVars, snapVars, repairVars, toolVars>>

\* merge_concepts runs on the batch.
MergeGiven ==
    /\ pc = "merge"
    /\ MergeConceptsBody
    /\ pc' = "give"
    /\ UNCHANGED <<steps, max_iters, min_concepts, iteration, tried_queries,
                   current_queries, run_results, summaries, candidates,
                   stop, persisted, outdir, final_ontology, observed, fuel>>
    /\ UNCHANGED <<cacheVars, httpVars, pmVars, wrVars, snapVars, repairVars, toolVars>>

\* merge_concepts runs again on the batch it has merged already.
MergeAgain ==
    /\ pc = "give"
    /\ merged # <<>>
    /\ Len(Flatten(merged)) + Len(candidates) <= MaxMerged + 1
    /\ MergeConceptsBody
    /\ pc' = "give"
    /\ UNCHANGED <<steps, max_iters, min_concepts, iteration, tried_queries,
                   current_queries, run_results, summaries, candidates,
                   stop, persisted, outdir, final_ontology, observed, fuel>>
    /\ UNCHANGED <<cacheVars, httpVars, pmVars, wrVars, snapVars, repairVars, toolVars>>

InitMerge ==
    /\ InitCacheVars
    /\ InitHttpVarsIdle
    /\ InitPmVarsIdle
    /\ InitWrVarsIdle
    /\ InitSnapVarsIdle
    /\ InitRepairVarsIdle
    /\ InitToolVarsIdle
    /\ pc = "give"
    /\ steps = 0
    /\ max_iters = 3
    /\ min_concepts = 4
    /\ iteration = 0
    /\ tried_queries = <<>>
    /\ current_queries = <<>>
    /\ run_results = <<>>
    /\ summaries = <<>>
    /\ candidates = <<>>
    /\ ontology = <<>>
    /\ delta_concepts = {}
    /\ stop = FALSE
    /\ persisted = <<>>
    /\ outdir = <<>>
    /\ final_ontology = <<>>
    /\ observed = <<>>
    /\ merged = <<>>
    /\ before = <<>>
    /\ fuel = 0

NextMerge == GiveCandidates \/ MergeGiven \/ MergeAgain
SpecMerge == InitMerge /\ [][NextMerge]_vars

(***************************************************************************)
(*        THE ITERATION CONTROLLER (tools_agent_v2.py, build_graph)        *)
(***************************************************************************)

RecursionLimit == 100   \* graph.invoke(state, config={"recursion_limit": 100})
MaxQueries == 4         \* state["current_queries"] = qs[:4]

Nodes == {"bump", "plan_queries", "search", "summarize_hits", "extract_terms",
          "merge_concepts", "persist_iteration", "observe", "mutate_queries"}

\* seq[:n]
FirstN(seq, n) == SubSeq(seq, 1, IF Len(seq) < n THEN Len(seq) ELSE n)

\* One superstep of the compiled graph: the node at pc runs, while the
\* recursion limit allows another step, and hands over to node next.
Runs(node) == pc = node /\ steps < RecursionLimit
Goto(next) == pc' = next /\ steps' = steps + 1

\* ---- what the collaborators may answer ----
MaxHits == 2            \* most hits search_pubmed returns over one cycle

\* An element of the JSON list the planner model answers with.
Str(q) == [isstr |-> TRUE, s |-> q]
NonStr == [isstr |-> FALSE, s |-> ""]

\* The planner's and the mutator's answers: text that json.loads rejects, one
\* query, two queries, five queries, and a list with only a blank and a
\* non-string item.
PlannerOutputs ==
    { [ok |-> FALSE, items |-> <<>>],
      [ok |-> TRUE,  items |-> <<Str("q1")>>],
      [ok |-> TRUE,  items |-> <<Str("q1"), Str("q2")>>],
      [ok |-> TRUE,  items |-> <<Str("q1"), Str("q2"), Str("q3"), Str("q4"), Str("q5")>>],
      [ok |-> TRUE,  items |-> <<Str(" "), NonStr>>] }

\* `q.strip()` is empty
Blank(q) == q \in {"", " "}

RECURSIVE UsableItems(_)
UsableItems(items) ==
    IF items = <<>> THEN <<>>
    ELSE (IF Head(items).isstr /\ ~Blank(Head(items).s) THEN <<Head(items).s>> ELSE <<>>)
         \o UsableItems(Tail(items))

\* try: qs = [q for q in json.loads(txt) if isinstance(q, str) and q.strip()]
\* except Exception: qs = []
UsableQueries(out) == IF out.ok THEN UsableItems(out.items) ELSE <<>>

\* The fallback queries of plan_queries and of mutate_queries, built from class_name.
PlanFallback == <<"cls histology morphology features low power",
                  "cls cytology nucleoli mitoses high power",
                  "cls benign mimics differential diagnosis histology">>
MutateFallback == <<"cls subcapsular nests capsule sinus histology",
                    "cls nuclear atypia mitoses high power histology">>

\* What search_pubmed returns for one query: it raises, or returns a list of hits.
Hit1 == [title |-> "t1", snippet |-> "s", url |-> "u1"]
HitChoices ==
    { [ok |-> FALSE, hits |-> <<>>],
      [ok |-> TRUE,  hits |-> <<>>],
      [ok |-> TRUE,  hits |-> <<Hit1>>] }

\* What the model answers to SUMMARY_PROMPT: text json.loads rejects, the JSON
\* object asked for, or JSON that is not an object.
SummaryOutputs == {"unparseable", "object", "nonobject"}

\* What the model answers to EXTRACT_PROMPT: text json.loads rejects (or JSON
\* that is no list of objects), or a JSON list of candidate objects, which an
\* element that is not an object may follow; one answer names a concept in
\* upper case.
RawCand(name) == [name_snake |-> <<name>>, text |-> <<"x", "y">>, mags |-> <<"10x">>,
                  applies_to |-> <<>>]
ExtractOutputs ==
    { [ok |-> FALSE, items |-> <<>>, then_nonobject |-> FALSE],
      [ok |-> TRUE,  items |-> <<RawCand("a")>>, then_nonobject |-> FALSE],
      [ok |-> TRUE,  items |-> <<RawCand("a"), RawCand("b")>>, then_nonobject |-> FALSE],
      [ok |-> TRUE,  items |-> <<RawCand("c"), RawCand("d")>>, then_nonobject |-> FALSE],
      [ok |-> TRUE,  items |-> <<RawCand("A")>>, then_nonobject |-> FALSE],
      [ok |-> TRUE,  items |-> <<RawCand("d")>>, then_nonobject |-> TRUE] }

\* ---- the nodes ----

\* bump_iter
Bump ==
    /\ Runs("bump")
    /\ iteration' = iteration + 1
    /\ Goto("plan_queries")
    /\ UNCHANGED <<max_iters, min_concepts, tried_queries, current_queries, run_results,
                   summaries, candidates, ontology, delta_concepts, stop, persisted, outdir,
                   final_ontology, observed, merged, before, fuel>>
    /\ UNCHANGED <<cacheVars, httpVars, pmVars, wrVars, snapVars, repairVars, toolVars>>

PlannedQueriesMutantKeepBatch(out) ==
    LET qs == UsableQueries(out) IN
    IF qs = <<>> THEN current_queries ELSE FirstN(qs, MaxQueries)

\* The queries plan_queries keeps for the model's answer out.
PlannedQueries(out) ==
    LET qs == UsableQueries(out) IN
    FirstN(IF qs = <<>> /\ iteration = 0 THEN PlanFallback ELSE qs, MaxQueries)

\* plan_queries
PlanQueries ==
    /\ Runs("plan_queries")
    /\ \E out \in PlannerOutputs :
        /\ Len(tried_queries) + Len(PlannedQueries(out)) <= fuel
        /\ current_queries' = PlannedQueries(out)
    /\ Goto("search")
    /\ UNCHANGED <<max_iters, min_concepts, iteration, tried_queries, run_results,
                   summaries, candidates, ontology, delta_concepts, stop, persisted, outdir,
                   final_ontology, observed, merged, before, fuel>>
    /\ UNCHANGED <<cacheVars, httpVars, pmVars, wrVars, snapVars, repairVars, toolVars>>

\* The hits of the queries 1..n, each tagged with its query.
RECURSIVE TaggedHits(_, _, _)
TaggedHits(queries, got, n) ==
    IF n = 0 THEN <<>>
    ELSE TaggedHits(queries, got, n - 1)
         \o [i \in 1..Len(got[n].hits) |->
                [title |-> got[n].hits[i].title, snippet |-> got[n].hits[i].snippet,
                 url |-> got[n].hits[i].url, origin_query |-> queries[n]]]

AppendTriedMutantNoDup(tried, qs) ==
    tried \o SelectSeq(qs, LAMBDA q : \A i \in 1..Len(tried) : tried[i] # q)

\* state["tried_queries"].append(q), for each of the queries qs in turn
AppendTried(tried, qs) == tried \o qs

\* search: every query is appended to tried_queries before its retrieval; a
\* retrieval that raises ends the run with the queries up to it appended.
Search ==
    /\ Runs("search")
    /\ \E got \in [1..Len(current_queries) -> HitChoices] :
        LET failed == {i \in 1..Len(current_queries) : ~got[i].ok} IN
        IF failed = {}
        THEN /\ Len(TaggedHits(current_queries, got, Len(current_queries))) <= MaxHits
             /\ tried_queries' = AppendTried(tried_queries, current_queries)
             /\ run_results' = TaggedHits(current_queries, got, Len(current_queries))
             /\ Goto("summarize_hits")
        ELSE LET first == CHOOSE i \in failed : \A j \in failed : i <= j IN
             /\ tried_queries' = AppendTried(tried_queries, SubSeq(current_queries, 1, first))
             /\ run_results' = run_results
             /\ Goto("RetrievalError")
    /\ UNCHANGED <<max_iters, min_concepts, iteration, current_queries,
                   summaries, candidates, ontology, delta_concepts, stop, persisted, outdir,
                   final_ontology, observed, merged, before, fuel>>
    /\ UNCHANGED <<cacheVars, httpVars, pmVars, wrVars, snapVars, repairVars, toolVars>>

\* summarize_hits: an answer that is no JSON object raises TypeError at
\* j["_title"] = ..., outside the try.
SummarizeHits ==
    /\ Runs("summarize_hits")
    /\ \E out \in [1..Len(run_results) -> SummaryOutputs] :
        IF \E i \in 1..Len(run_results) : out[i] = "nonobject"
        THEN /\ summaries' = summaries
             /\ Goto("TypeError")
        ELSE /\ summaries' = [i \in 1..Len(run_results) |->
                    [summary |-> IF out[i] = "object" THEN "sum" ELSE "",
                     title |-> run_results[i].title,
                     url |-> run_results[i].url,
                     origin_query |-> run_results[i].origin_query]]
             /\ Goto("extract_terms")
    /\ UNCHANGED <<max_iters, min_concepts, iteration, tried_queries, current_queries,
                   run_results, candidates, ontology, delta_concepts, stop, persisted, outdir,
                   final_ontology, observed, merged, before, fuel>>
    /\ UNCHANGED <<cacheVars, httpVars, pmVars, wrVars, snapVars, repairVars, toolVars>>

\* The candidates one summary contributes: the objects of the answer, each with
\* the summary's title and url. Every object is appended to the candidates as
\* the loop reaches it, so the objects in front of an element that is not an
\* object stay when that element raises inside the try.
Tagged(s, out) ==
    IF ~out.ok THEN <<>>
    ELSE [i \in 1..Len(out.items) |->
            [name_snake |-> out.items[i].name_snake, text |-> out.items[i].text,
             mags |-> out.items[i].mags, applies_to |-> out.items[i].applies_to,
             origin_title |-> s.title, origin_url |-> s.url]]

RECURSIVE Extracted(_, _, _)
Extracted(sums, outs, n) ==
    IF n = 0 THEN <<>> ELSE Extracted(sums, outs, n - 1) \o Tagged(sums[n], outs[n])

\* extract_terms
ExtractTerms ==
    /\ Runs("extract_terms")
    /\ \E outs \in [1..Len(summaries) -> ExtractOutputs] :
        candidates' = Extracted(summaries, outs, Len(summaries))
    /\ Goto("merge_concepts")
    /\ UNCHANGED <<max_iters, min_concepts, iteration, tried_queries, current_queries,
                   run_results, summaries, ontology, delta_concepts, stop, persisted, outdir,
                   final_ontology, observed, merged, before, fuel>>
    /\ UNCHANGED <<cacheVars, httpVars, pmVars, wrVars, snapVars, repairVars, toolVars>>

\* merge_concepts
MergeConcepts ==
    /\ Runs("merge_concepts")
    /\ MergeConceptsBody
    /\ Goto("persist_iteration")
    /\ UNCHANGED <<max_iters, min_concepts, iteration, tried_queries, current_queries,
                   run_results, summaries, candidates, stop, persisted, outdir,
                   final_ontology, observed, fuel>>
    /\ UNCHANGED <<cacheVars, httpVars, pmVars, wrVars, snapVars, repairVars, toolVars>>

\* f"{kind}_iter{iteration}_{stamp}"
ArtifactNameMutantNoIteration(kind, it, stamp) ==
    [kind |-> kind, iteration |-> 0, stamp |-> stamp]

ArtifactName(kind, it, stamp) == [kind |-> kind, iteration |-> it, stamp |-> stamp]

\* What a file holds: the state of which cycle was dumped into it, and whether
\* the dump was completed (the dumped queries and ontology delta themselves are
\* kept in persisted).  A save_json that fails after opening its file leaves
\* it truncated.
Dumped == [complete |-> TRUE, iteration |-> iteration]
Truncated == [complete |-> FALSE, iteration |-> iteration]

\* save_json(outdir, name, data): the file is opened with "w", so a file of
\* the same name is replaced.
save_json(dir, name, content) ==
    [n \in DOMAIN dir \cup {name} |-> IF n = name THEN content ELSE dir[n]]

\* The five files of persist_iteration, in the order it writes them.
IterationFiles == <<"queries", "results", "summaries", "candidates", "ontology_delta">>

\* The directory after the first n files of the iteration were written.
RECURSIVE SaveFirst(_, _)
SaveFirst(dir, n) ==
    IF n = 0 THEN dir
    ELSE save_json(SaveFirst(dir, n - 1),
                   ArtifactName(IterationFiles[n], iteration, now), Dumped)

\* persist_iteration: the five files are written one after the other.
PersistIteration ==
    /\ Runs("persist_iteration")
    /\ outdir' = SaveFirst(outdir, Len(IterationFiles))
    /\ persisted' = Append(persisted,
            [iteration |-> iteration,
             queries |-> current_queries,
             delta |-> [n \in delta_concepts |-> ontology[n]]])
    /\ Goto("observe")
    /\ UNCHANGED <<max_iters, min_concepts, iteration, tried_queries, current_queries,
                   run_results, summaries, candidates, ontology, delta_concepts, stop,
                   final_ontology, observed, merged, before, fuel>>
    /\ UNCHANGED <<cacheVars, httpVars, pmVars, wrVars, snapVars, repairVars, toolVars>>

\* persist_iteration on a failing disk: one save_json raises OSError, which ends
\* the run with the files before it written and its own file absent (mkdir or
\* open failed) or truncated (json.dump failed).
PersistIterationFails ==
    /\ Runs("persist_iteration")
    /\ \E written \in 0..(Len(IterationFiles) - 1), opened \in BOOLEAN :
          outdir' = IF opened
                    THEN save_json(SaveFirst(outdir, written),
                             ArtifactName(IterationFiles[written + 1], iteration, now),
                             Truncated)
                    ELSE SaveFirst(outdir, written)
    /\ Goto("OSError")
    /\ UNCHANGED <<max_iters, min_concepts, iteration, tried_queries, current_queries,
                   run_results, summaries, candidates, ontology, delta_concepts, stop,
                   persisted, final_ontology, observed, merged, before, fuel>>
    /\ UNCHANGED <<cacheVars, httpVars, pmVars, wrVars, snapVars, repairVars, toolVars>>

StopRuleMutantBoth(total) == (total >= min_concepts) /\ (iteration >= max_iters)

\* (total >= min_concepts) or (state["iteration"] >= state["max_iters"])
StopRule(total) == (total >= min_concepts) \/ (iteration >= max_iters)

DecideMutantSkipMutate(st) == IF st THEN "END" ELSE "bump"

\* decide, with the targets add_conditional_edges gives its two answers
Decide(st) == IF st THEN "END" ELSE "mutate_queries"

\* observe, and the conditional edge decide after it.
Observe ==
    /\ Runs("observe")
    /\ stop' = StopRule(Cardinality(DOMAIN ontology))
    /\ observed' = Append(observed,
            [iteration |-> iteration, total |-> Cardinality(DOMAIN ontology),
             stop |-> stop'])
    /\ Goto(Decide(stop'))
    /\ UNCHANGED <<max_iters, min_concepts, iteration, tried_queries, current_queries,
                   run_results, summaries, candidates, ontology, delta_concepts,
                   persisted, outdir, final_ontology, merged, before, fuel>>
    /\ UNCHANGED <<cacheVars, httpVars, pmVars, wrVars, snapVars, repairVars, toolVars>>

\* mutate_queries
MutateQueries ==
    /\ Runs("mutate_queries")
    /\ \E out \in PlannerOutputs :
        current_queries' = FirstN(IF UsableQueries(out) = <<>> THEN MutateFallback
                                  ELSE UsableQueries(out), MaxQueries)
    /\ Goto("bump")
    /\ UNCHANGED <<max_iters, min_concepts, iteration, tried_queries, run_results,
                   summaries, candidates, ontology, delta_concepts, stop, persisted, outdir,
                   final_ontology, observed, merged, before, fuel>>
    /\ UNCHANGED <<cacheVars, httpVars, pmVars, wrVars, snapVars, repairVars, toolVars>>

\* graph.invoke raises GraphRecursionError: the recursion limit is reached and
\* the graph has not come to END.
GraphRecursion ==
    /\ pc \in Nodes
    /\ steps >= RecursionLimit
    /\ pc' = "GraphRecursionError"
    /\ UNCHANGED <<steps, max_iters, min_concepts, iteration, tried_queries,
                   current_queries, run_results, summaries, candidates, ontology,
                   delta_concepts, stop, persisted, outdir, final_ontology, observed, merged,
                   before, fuel>>
    /\ UNCHANGED <<cacheVars, httpVars, pmVars, wrVars, snapVars, repairVars, toolVars>>

FinalSnapshotMutantDelta == [n \in delta_concepts |-> ontology[n]]

\* json.dump(final_state["ontology"], f, ...)
FinalSnapshot == ontology

\* __main__ after graph.invoke returned: the final ontology is written.
FinalExport ==
    /\ pc = "END"
    /\ final_ontology' = FinalSnapshot
    /\ pc' = "DONE"
    /\ UNCHANGED <<steps, max_iters, min_concepts, iteration, tried_queries,
                   current_queries, run_results, summaries, candidates, ontology,
                   delta_concepts, stop, persisted, outdir, observed, merged, before, fuel>>
    /\ UNCHANGED <<cacheVars, httpVars, pmVars, wrVars, snapVars, repairVars, toolVars>>

\* ---- runs ----
\* The configurations of the runs: --max_iters and --min_concepts, and how many
\* queries the planner yields over the run.
Configs ==
    { [max_iters |-> 3,  min_concepts |-> 4, fuel |-> 4],
      [max_iters |-> 3,  min_concepts |-> 2, fuel |-> 4],
      [max_iters |-> 1,  min_concepts |-> 1, fuel |-> 2],
      [max_iters |-> 11, min_concepts |-> 4, fuel |-> 0],
      [max_iters |-> 12, min_concepts |-> 4, fuel |-> 0],
      [max_iters |-> 13, min_concepts |-> 4, fuel |-> 0] }

InitRun ==
    /\ InitCacheVars
    /\ InitHttpVarsIdle
    /\ InitPmVarsIdle
    /\ InitWrVarsIdle
    /\ InitSnapVarsIdle
    /\ InitRepairVarsIdle
    /\ InitToolVarsIdle
    /\ \E cfg \in Configs :
        /\ max_iters = cfg.max_iters
        /\ min_concepts = cfg.min_concepts
        /\ fuel = cfg.fuel
    /\ pc = "bump"
    /\ steps = 0
    /\ iteration = 0
    /\ tried_queries = <<>>
    /\ current_queries = <<>>
    /\ run_results = <<>>
    /\ summaries = <<>>
    /\ candidates = <<>>
    /\ ontology = <<>>
    /\ delta_concepts = {}
    /\ stop = FALSE
    /\ persisted = <<>>
    /\ outdir = <<>>
    /\ final_ontology = <<>>
    /\ observed = <<>>
    /\ merged = <<>>
    /\ before = <<>>

NextRun ==
    \/ Bump \/ PlanQueries \/ Search \/ SummarizeHits \/ ExtractTerms \/ MergeConcepts
    \/ PersistIteration \/ Observe \/ MutateQueries \/ GraphRecursion \/ FinalExport

SpecRun == InitRun /\ [][NextRun]_vars

\* The run on a disk that may fail.
NextArtifacts == NextRun \/ PersistIterationFails
SpecArtifacts == InitRun /\ [][NextArtifacts]_vars

\* ---- list_searches, list_results, list_extractions ----

MatchesMutantAnySource(row, keyword, source) == row.keyword = keyword

\* WHERE keyword = ? [AND source = ?]: the source is compared only `if source`.
Matches(row, keyword, source) ==
    /\ row.keyword = keyword
    /\ source \in {None, ""} \/ row.source = source

\* ORDER BY requested_at DESC
SortedDesc(rows) ==
    \A i, j \in 1..Len(rows) : i < j => rows[i].requested_at >= rows[j].requested_at

\* What list_searches may return: the matching rows, latest requested_at first.
\* Rows of the same second come in whatever order the query plan yields.
ListSearches(keyword, source) ==
    LET found == SelectSeq(searches, LAMBDA row : Matches(row, keyword, source)) IN
    { [i \in 1..Len(found) |-> found[p[i]]] : p \in Permutations(1..Len(found)) }
        \cap { rows \in [1..Len(found) -> SeqToSet(found)] : SortedDesc(rows) }

\* list_results(search_id), without its order: every row as its payload with
\* title, url and snippet overwritten by the stored columns.
ListResults(search_id) ==
    { [title |-> r.title, url |-> r.url, snippet |-> r.snippet] :
        r \in {q \in results : q.search_id = search_id} }

\* list_extractions(search_id=search_id), without its order.
ListExtractions(search_id) ==
    { e \in SeqToSet(extractions) : e.search_id = search_id }

\* ---- storage.read_results ----

\* The entry read_results appends for a search.
Entry(search) ==
    [search_id |-> search.id, tool_name |-> search.tool_name,
     requested_at |-> search.requested_at, max_results |-> search.max_results,
     results |-> ListResults(search.id), extractions |-> ListExtractions(search.id)]

\* payload["sources"].setdefault(src, {"searches": []})["searches"].append(...):
\* the groups are kept in the order their source first appeared.
AddEntry(groups, search) ==
    IF \E g \in 1..Len(groups) : groups[g].source = search.source
    THEN [g \in 1..Len(groups) |->
            IF groups[g].source = search.source
            THEN [groups[g] EXCEPT !.searches = Append(@, Entry(search))]
            ELSE groups[g]]
    ELSE Append(groups, [source |-> search.source, searches |-> <<Entry(search)>>])

RECURSIVE Bundle(_, _)
Bundle(listed, n) ==
    IF n = 0 THEN <<>> ELSE AddEntry(Bundle(listed, n - 1), listed[n])

ReadResults(keyword, source) ==
    /\ \E listed \in ListSearches(keyword, source) :
        lastRead' = [op |-> "read_results", keyword |-> keyword, source |-> source,
                     listed |-> [i \in 1..Len(listed) |-> listed[i].id],
                     bundle |-> Bundle(listed, Len(listed)), picked |-> 0]
    /\ UNCHANGED <<searches, results, extractions, sqlite_sequence, lastCall, changed, now>>

\* ---- extraction._select_search, called without a search_id ----
SelectSearch(keyword, source) ==
    /\ \E listed \in ListSearches(keyword, source) :
        lastRead' = [op |-> IF listed = <<>> THEN "select_search: ValueError"
                                             ELSE "select_search",
                     keyword |-> keyword, source |-> source,
                     listed |-> [i \in 1..Len(listed) |-> listed[i].id],
                     bundle |-> <<>>,
                     picked |-> IF listed = <<>> THEN 0 ELSE listed[1].id]
    /\ UNCHANGED <<searches, results, extractions, sqlite_sequence, lastCall, changed, now>>

(***************************************************************************)
(*     THE CACHE AS storage.py USES IT: several keywords and sources       *)
(***************************************************************************)

MaxClock == 1       \* the clock's last second

\* The (keyword, source) pairs searched for.
SearchKinds == {<<"k1", "pubmed">>, <<"k1", "other">>, <<"k2", "pubmed">>}

\* A second passes.
Tick ==
    /\ now < MaxClock
    /\ now' = now + 1
    /\ UNCHANGED <<searches, results, extractions, sqlite_sequence, lastCall, changed,
                   lastRead>>
    /\ UNCHANGED <<runVars, httpVars, pmVars, wrVars, snapVars, repairVars, toolVars>>

\* storage.write_results: insert_search, bulk_insert_results under the new id,
\* then len(list_results(search_id)). lastCall keeps the count added; the id
\* returned is that of the last row of searches.
WriteResults(keyword, source, items) ==
    LET id == NextRowid(sqlite_sequence.searches)
        out == BulkInsert(results, sqlite_sequence.results, id, items) IN
    /\ Len(searches) < MaxSearches
    /\ searches' = Append(searches, [id |-> id, keyword |-> keyword, source |-> source,
                                     tool_name |-> "search", max_results |-> 5,
                                     requested_at |-> now])
    /\ results' = out.rows
    /\ sqlite_sequence' = [sqlite_sequence EXCEPT !.searches = id, !.results = out.seq]
    /\ lastCall' = [op |-> "write_results", n |-> Len(items), ret |-> out.count]
    /\ changed' = (out.rows # results)
    /\ UNCHANGED <<extractions, now, lastRead>>

\* The result lists handed to write_results: one item, and two items
\* that share their (title, url) after `or ""`.
WriteLists ==
    { <<[title |-> "a", url |-> None, snippet |-> "s1"]>>,
      <<[title |-> None, url |-> None, snippet |-> "s1"],
        [title |-> "", url |-> "", snippet |-> "s2"]>> }

StoreWrite == \E ks \in SearchKinds, items \in WriteLists :
                    WriteResults(ks[1], ks[2], items)
                    /\ UNCHANGED <<runVars, httpVars, pmVars, wrVars, snapVars, repairVars, toolVars>>
StoreSearch == \E ks \in SearchKinds :
                    InsertSearch(ks[1], ks[2]) /\ UNCHANGED <<runVars, httpVars, pmVars, wrVars, snapVars, repairVars, toolVars>>
\* The keyword and the source filter of the reads.
ReadKeywords == {"k1"}
ReadSources == {None, "pubmed"}

StoreRead == \E k \in ReadKeywords, s \in ReadSources :
                    ReadResults(k, s) /\ UNCHANGED <<runVars, httpVars, pmVars, wrVars, snapVars, repairVars, toolVars>>
StoreSelect == \E k \in ReadKeywords, s \in ReadSources :
                    SelectSearch(k, s) /\ UNCHANGED <<runVars, httpVars, pmVars, wrVars, snapVars, repairVars, toolVars>>
StoreExtraction == \E sid \in {1}, k \in Keywords :
                    InsertExtraction(sid, k, PayloadDict(EmptyExtraction))
                    /\ UNCHANGED <<runVars, httpVars, pmVars, wrVars, snapVars, repairVars, toolVars>>

(***************************************************************************)
(*     THE HTTP HELPERS (tools_agent_v2.py _http_get, http_client.py)      *)
(***************************************************************************)

MaxRetryBudget == 3     \* largest retry budget a call is given
MaxCalls == 2           \* calls of a helper made one after the other

\* NCBI_MIN_DELAY_S, in milliseconds
NCBI_MIN_DELAY_MS == 340

\* What the sleeps of one turn leave behind: the request of the turn ended the
\* gap before it, `slept` ms of sleep follow it, and `wait` holds the sleep when
\* a retry comes next.
Slept(slept, wait) ==
    /\ http_gap' = IF http_calls = 1 /\ http_log = <<>> THEN <<>> ELSE <<http_slept>>
    /\ http_slept' = slept
    /\ http_waits' = http_waits \o wait

\* What one request is answered with: the transport raises (timeout, connection
\* error), or a response with a status; for a 2xx response, whether its
\* content-type names json and whether its body parses as JSON.
Responses ==
    { [kind |-> "exception", status |-> 0,   ctype_json |-> FALSE, body_json |-> FALSE],
      [kind |-> "response",  status |-> 200, ctype_json |-> TRUE,  body_json |-> TRUE],
      [kind |-> "response",  status |-> 200, ctype_json |-> TRUE,  body_json |-> FALSE],
      [kind |-> "response",  status |-> 200, ctype_json |-> FALSE, body_json |-> FALSE],
      [kind |-> "response",  status |-> 404, ctype_json |-> FALSE, body_json |-> FALSE],
      [kind |-> "response",  status |-> 429, ctype_json |-> FALSE, body_json |-> FALSE],
      [kind |-> "response",  status |-> 503, ctype_json |-> FALSE, body_json |-> FALSE] }

\* resp.status_code == 429 or resp.status_code >= 500
RetryStatus(resp) == resp.status = 429 \/ resp.status >= 500

\* raise_for_status() returns: a 2xx status
IsSuccess(resp) == resp.status >= 200 /\ resp.status < 300

Raised(exc) == [kind |-> "raised", exc |-> exc]
Returned(what, resp) == [kind |-> "returned", what |-> what, resp |-> resp]

RetryAllowedMutantAlways(retry, max) == TRUE

\* `retry <= NCBI_MAX_RETRIES` in _http_get, `attempt < retries` in http_get
RetryAllowed(retry, max) == retry <= max

\* A call of one of the helpers begins: the first one, or the next request of
\* the same program after a call that returned.
HttpCall ==
    /\ \/ /\ http_pc = "idle"
          /\ \E fn \in {"_http_get", "http_get"}, max \in 0..MaxRetryBudget :
                /\ http_fn' = fn
                /\ http_max' = max
       \/ /\ http_pc = "returned"
          /\ http_calls < MaxCalls
          /\ UNCHANGED <<http_fn, http_max>>
    /\ http_pc' = "loop"
    /\ http_calls' = http_calls + 1
    /\ http_retry' = 0
    /\ http_log' = <<>>
    /\ http_waits' = <<>>
    /\ http_out' = [kind |-> "none"]
    /\ UNCHANGED <<http_slept, http_gap>>
    /\ UNCHANGED <<cacheVars, runVars, pmVars, wrVars, snapVars, repairVars, toolVars>>

\* time.sleep(NCBI_MIN_DELAY_S * (2 ** (retry - 1)))
NcbiBackoff(retry) == NCBI_MIN_DELAY_MS * 2 ^ (retry - 1)

\* One turn of the `while True` loop of _http_get. An exception of client.get
\* leaves the function at once.
NcbiAttempt ==
    /\ http_fn = "_http_get"
    /\ http_pc = "loop"
    /\ \E resp \in Responses :
        /\ http_log' = Append(http_log, resp)
        /\ IF resp.kind = "exception"
           THEN /\ http_pc' = "raised"
                /\ http_out' = Raised("TransportError")
                /\ http_retry' = http_retry
                /\ Slept(0, <<>>)
           ELSE /\ http_retry' = IF RetryStatus(resp) THEN http_retry + 1 ELSE http_retry
                /\ IF RetryStatus(resp) /\ RetryAllowed(http_retry', http_max)
                   THEN /\ http_pc' = "loop"
                        /\ http_out' = http_out
                        /\ Slept(NcbiBackoff(http_retry'), <<NcbiBackoff(http_retry')>>)
                   ELSE IF IsSuccess(resp)
                   THEN /\ http_pc' = "returned"
                        /\ http_out' = Returned("response", resp)
                        /\ Slept(NCBI_MIN_DELAY_MS, <<>>)
                   ELSE /\ http_pc' = "raised"
                        /\ http_out' = Raised("HTTPStatusError")
                        /\ Slept(IF RetryStatus(resp) THEN NcbiBackoff(http_retry') ELSE 0,
                                 <<>>)
    /\ UNCHANGED <<http_fn, http_max, http_calls>>
    /\ UNCHANGED <<cacheVars, runVars, pmVars, wrVars, snapVars, repairVars, toolVars>>

\* The exception the body of the try of http_get raises for resp, "" when it
\* raises none.
ClientException(resp) ==
    IF resp.kind = "exception" THEN "TransportError"
    ELSE IF ~IsSuccess(resp) THEN "HTTPStatusError"
    ELSE IF resp.ctype_json /\ ~resp.body_json THEN "JSONDecodeError"
    ELSE ""

\* time.sleep(1.5 * (attempt + 1)) after a 429, time.sleep(1.0 * (attempt + 1))
\* in the except branch, in ms
ClientBackoff(resp, attempt) ==
    IF resp.kind = "response" /\ resp.status = 429
    THEN 1500 * (attempt + 1) ELSE 1000 * (attempt + 1)

\* One turn of `for attempt in range(retries + 1)` of http_get; http_retry is
\* attempt.
ClientAttempt ==
    /\ http_fn = "http_get"
    /\ http_pc = "loop"
    /\ \E resp \in Responses :
        /\ http_log' = Append(http_log, resp)
        /\ IF \/ resp.kind = "response" /\ resp.status = 429
                    /\ RetryAllowed(http_retry + 1, http_max)
              \/ ClientException(resp) # "" /\ RetryAllowed(http_retry + 1, http_max)
           THEN /\ http_retry' = http_retry + 1
                /\ http_pc' = "loop"
                /\ http_out' = http_out
                /\ Slept(ClientBackoff(resp, http_retry), <<ClientBackoff(resp, http_retry)>>)
           ELSE IF ClientException(resp) # ""
           THEN /\ http_retry' = http_retry
                /\ http_pc' = "raised"
                /\ http_out' = Raised(ClientException(resp))
                /\ Slept(0, <<>>)
           ELSE /\ http_retry' = http_retry
                /\ http_pc' = "returned"
                /\ http_out' = Returned(IF resp.body_json THEN "json" ELSE "text", resp)
                /\ Slept(0, <<>>)
    /\ UNCHANGED <<http_fn, http_max, http_calls>>
    /\ UNCHANGED <<cacheVars, runVars, pmVars, wrVars, snapVars, repairVars, toolVars>>

InitHttp == InitCacheVars /\ InitRunVarsIdle /\ InitHttpVarsIdle /\ InitPmVarsIdle /\ InitWrVarsIdle
                 /\ InitSnapVarsIdle
                 /\ InitRepairVarsIdle
                 /\ InitToolVarsIdle

NextHttp == HttpCall \/ NcbiAttempt \/ ClientAttempt

SpecHttp == InitHttp /\ [][NextHttp]_vars

\* Every request of the call so far was answered with 429 or a server error.
AllRetryStatus ==
    \A i \in 1..Len(http_log) : http_log[i].kind = "response" /\ RetryStatus(http_log[i])

\* The call is over and delivered the response of its last request.
DeliveredLast ==
    /\ http_pc = "returned"
    /\ http_out.resp = http_log[Len(http_log)]

\* C12 (as stated): a call issues at most http_max + 1 requests; when every one
\* was answered with 429 or 5xx the call raises; and a 2xx response of any
\* attempt is the last request and is what the call returns.
C12_AsStated ==
    /\ Len(http_log) <= http_max + 1
    /\ http_pc \in {"returned", "raised"} /\ AllRetryStatus => http_pc = "raised"
    /\ \A i \in 1..Len(http_log) :
         http_log[i].kind = "response" /\ IsSuccess(http_log[i]) =>
            i = Len(http_log) /\ DeliveredLast

\* C12: a call issues at most http_max + 1 requests; when every one was answered
\* with 429 or 5xx the call raises, after exactly http_max + 1 requests; and a 2xx
\* response of any attempt is the last request and is what the call returns,
\* unless the helper is http_get and the response names json as its content
\* type with a body that does not parse, which http_get takes as a failed attempt.
C12_BoundedRetry ==
    /\ Len(http_log) <= http_max + 1
    /\ http_pc \in {"returned", "raised"} /\ AllRetryStatus =>
         http_pc = "raised" /\ Len(http_log) = http_max + 1
    /\ \A i \in 1..Len(http_log) :
         /\ http_log[i].kind = "response"
         /\ IsSuccess(http_log[i])
         /\ ~(http_fn = "http_get" /\ http_log[i].ctype_json /\ ~http_log[i].body_json)
         => i = Len(http_log) /\ DeliveredLast

\* C12 witness: http_get with two retries was answered 429, 503, 429 and raised
\* after its third request.
C12_Witness ==
    /\ http_fn = "http_get"
    /\ http_max = 2
    /\ http_pc = "raised"
    /\ Len(http_log) = 3
    /\ AllRetryStatus
    /\ http_log[1].status = 429
    /\ http_log[2].status = 503
    /\ http_out = Raised("HTTPStatusError")

(***************************************************************************)
(*              THE RETRIEVAL TOOL (tools_agent_v2.py search_pubmed)       *)
(***************************************************************************)

BatchSize == 4      \* for i in range(0, len(ids), 4)
MaxIds == 5         \* longest id list esearch answers with
PmKs == {1, 2, 5}   \* values of the argument k

\* What efetch answers for a sub-batch of ids, when _http_get returns: an article
\* for every id, the same with the first article lacking title and abstract, or
\* no article at all.
FetchKinds == {"all", "first_blank", "none"}

\* The PubmedArticle elements of the answer, as (title, snippet, pmid).
Articles(batch, kind) ==
    IF kind = "none" THEN <<>>
    ELSE [j \in 1..Len(batch) |->
            IF kind = "first_blank" /\ j = 1
            THEN [title |-> "", snippet |-> "", pmid |-> batch[j]]
            ELSE [title |-> "t", snippet |-> "s", pmid |-> batch[j]]]

\* The hit of an article; url is the PubMed page of its pmid.
HitOf(a) == [title |-> a.title, snippet |-> a.snippet, url |-> <<"pubmed", a.pmid>>]

\* The hits appended for a list of articles: `if title or snippet`.
RECURSIVE HitsOf(_)
HitsOf(arts) ==
    IF arts = <<>> THEN <<>>
    ELSE (IF Head(arts).title # "" \/ Head(arts).snippet # ""
          THEN <<HitOf(Head(arts))>> ELSE <<>>) \o HitsOf(Tail(arts))

\* A call of search_pubmed begins.
PubmedCall ==
    /\ pm_pc = "idle"
    /\ \E k \in PmKs : pm_k' = k
    /\ pm_pc' = "esearch"
    /\ UNCHANGED <<pm_ids, pm_i, pm_results, pm_out>>
    /\ UNCHANGED <<cacheVars, runVars, httpVars, wrVars, snapVars, repairVars, toolVars>>

\* The esearch request: _http_get raises, or the id list is read; an empty list
\* returns [] at once.
Esearch ==
    /\ pm_pc = "esearch"
    /\ \/ /\ pm_pc' = "raised"
          /\ pm_out' = Raised("HTTPStatusError")
          /\ UNCHANGED pm_ids
       \/ \E n \in 0..MaxIds :
            /\ pm_ids' = [j \in 1..n |-> j]
            /\ IF n = 0
               THEN pm_pc' = "returned" /\ pm_out' = [kind |-> "returned", hits |-> <<>>]
               ELSE pm_pc' = "efetch" /\ pm_out' = pm_out
    /\ UNCHANGED <<pm_k, pm_i, pm_results>>
    /\ UNCHANGED <<cacheVars, runVars, httpVars, wrVars, snapVars, repairVars, toolVars>>

\* ids[i:i+4]
SubBatch(ids, i) ==
    SubSeq(ids, i + 1, IF i + BatchSize < Len(ids) THEN i + BatchSize ELSE Len(ids))

\* One turn of the efetch loop: _http_get raises and search_pubmed with it, or
\* the articles of the sub-batch are appended to results.
Efetch ==
    /\ pm_pc = "efetch"
    /\ pm_i < Len(pm_ids)
    /\ \/ /\ pm_pc' = "raised"
          /\ pm_out' = Raised("HTTPStatusError")
          /\ UNCHANGED <<pm_i, pm_results>>
       \/ \E kind \in FetchKinds :
            /\ pm_results' = pm_results \o HitsOf(Articles(SubBatch(pm_ids, pm_i), kind))
            /\ pm_i' = pm_i + BatchSize
            /\ UNCHANGED <<pm_pc, pm_out>>
    /\ UNCHANGED <<pm_k, pm_ids>>
    /\ UNCHANGED <<cacheVars, runVars, httpVars, wrVars, snapVars, repairVars, toolVars>>

\* return results[:k]
PubmedReturn ==
    /\ pm_pc = "efetch"
    /\ pm_i >= Len(pm_ids)
    /\ pm_pc' = "returned"
    /\ pm_out' = [kind |-> "returned", hits |-> FirstN(pm_results, pm_k)]
    /\ UNCHANGED <<pm_k, pm_ids, pm_i, pm_results>>
    /\ UNCHANGED <<cacheVars, runVars, httpVars, wrVars, snapVars, repairVars, toolVars>>

InitPubmed == InitCacheVars /\ InitRunVarsIdle /\ InitHttpVarsIdle /\ InitPmVarsIdle /\ InitWrVarsIdle
                 /\ InitSnapVarsIdle
                 /\ InitRepairVarsIdle
                 /\ InitToolVarsIdle

NextPubmed == PubmedCall \/ Esearch \/ Efetch \/ PubmedReturn

SpecPubmed == InitPubmed /\ [][NextPubmed]_vars

\* C13 (as stated): when the call is over, also because the fetch of a
\* sub-batch failed, the caller has the items fetched from the sub-batches that
\* did not fail (up to k of them).
C13_AsStated ==
    pm_pc \in {"returned", "raised"} =>
        (IF pm_out.kind = "returned" THEN pm_out.hits ELSE <<>>) = FirstN(pm_results, pm_k)

(***************************************************************************)
(*        CONCURRENT WRITERS (db.py db_cursor, bulk_insert_results)        *)
(***************************************************************************)

LockFreeMutantAlways(w) == TRUE

\* SQLite admits one write transaction at a time.
LockFree(w) == lock = 0

\* Writer w calls bulk_insert_results(search_id, items) and builds its records.
WriterCall(w) ==
    /\ writers[w].pc = "idle"
    /\ \E items \in ItemLists \ {<<>>} :
        writers' = [writers EXCEPT ![w].pc = "ready", ![w].search_id = 1,
                                   ![w].items = items]
    /\ UNCHANGED lock
    /\ UNCHANGED <<cacheVars, runVars, httpVars, pmVars, snapVars, repairVars, toolVars>>

\* cur.executemany: the implicit BEGIN takes the write lock, and the statement
\* runs once per record on the table as the transaction sees it.
WriterExecute(w) ==
    /\ writers[w].pc = "ready"
    /\ LockFree(w)
    /\ lock' = w
    /\ LET out == BulkInsert(results, sqlite_sequence.results,
                             writers[w].search_id, writers[w].items) IN
       writers' = [writers EXCEPT ![w].pc = "commit", ![w].rows = out.rows,
                                  ![w].count = out.count]
    /\ UNCHANGED <<cacheVars, runVars, httpVars, pmVars, snapVars, repairVars, toolVars>>

\* The lock stays held for longer than the connection's busy timeout: the
\* statement raises OperationalError (database is locked), nothing is inserted.
WriterBusy(w) ==
    /\ writers[w].pc = "ready"
    /\ ~LockFree(w)
    /\ writers' = [writers EXCEPT ![w].pc = "raised"]
    /\ UNCHANGED lock
    /\ UNCHANGED <<cacheVars, runVars, httpVars, pmVars, snapVars, repairVars, toolVars>>

\* conn.commit() of db_cursor, then `return cur.rowcount`.
WriterCommit(w) ==
    /\ writers[w].pc = "commit"
    /\ results' = results \cup writers[w].rows
    /\ sqlite_sequence' = [sqlite_sequence EXCEPT !.results = @ + writers[w].count]
    /\ lastCall' = [op |-> "bulk_insert_results", n |-> Len(writers[w].items),
                    ret |-> writers[w].count]
    /\ changed' = (results' # results)
    /\ writers' = [writers EXCEPT ![w].pc = "returned"]
    /\ lock' = 0
    /\ UNCHANGED <<searches, extractions, now, lastRead>>
    /\ UNCHANGED <<runVars, httpVars, pmVars, snapVars, repairVars, toolVars>>

InitWriters ==
    /\ InitCacheVars /\ InitRunVarsIdle /\ InitHttpVarsIdle /\ InitPmVarsIdle
    /\ InitWrVarsIdle
    /\ InitSnapVarsIdle
    /\ InitRepairVarsIdle
    /\ InitToolVarsIdle

NextWriters ==
    \E w \in Writers : WriterCall(w) \/ WriterExecute(w) \/ WriterBusy(w) \/ WriterCommit(w)

SpecWriters == InitWriters /\ [][NextWriters]_vars

(***************************************************************************)
(*                    CLAIMS ABOUT THE ITERATION CONTROLLER                *)
(***************************************************************************)

\* How a run is over: graph.invoke returned (END, then DONE once the final
\* ontology is written) or raised.
Failures == {"RetrievalError", "TypeError", "GraphRecursionError"}

\* C6: after observe, stop is true exactly when the ontology map has at least
\* min_concepts entries or the iteration counter is at least max_iters. The
\* states right after observe are those at mutate_queries and at END; every
\* entry of the history of observe calls obeys the same rule.
C6_StopRuleAfterObserve ==
    /\ pc \in {"mutate_queries", "END", "DONE"} =>
         (stop <=> (Cardinality(DOMAIN ontology) >= min_concepts \/ iteration >= max_iters))
    /\ \A i \in 1..Len(observed) :
         observed[i].stop <=> (observed[i].total >= min_concepts
                               \/ observed[i].iteration >= max_iters)

\* C6 witness: a merge left exactly 2 entries, min_concepts is 2, the iteration
\* budget is not used up, and observe has set stop.
C6_Witness ==
    /\ pc = "END"
    /\ stop
    /\ min_concepts = 2
    /\ Cardinality(DOMAIN ontology) = 2
    /\ iteration < max_iters

\* C7 (as stated): a run that is over ended in a cycle k = iteration at which
\* the concept count is at least min_concepts or k is at least max_iters, and in
\* no earlier cycle was either the case.
C7_AsStated ==
    pc \in {"END", "DONE", "GraphRecursionError"} =>
        /\ Cardinality(DOMAIN ontology) >= min_concepts \/ iteration >= max_iters
        /\ \A i \in 1..Len(observed) :
             observed[i].iteration < iteration =>
                ~(observed[i].total >= min_concepts \/ observed[i].iteration >= max_iters)

\* C8 (as stated): the iteration counter never exceeds max_iters, and a run in
\* which no collaborator raised is over only at END or DONE with stop true.
C8_AsStated ==
    /\ iteration <= max_iters
    /\ pc \notin Nodes \cup {"RetrievalError", "TypeError"} =>
         pc \in {"END", "DONE"} /\ stop

\* The stage that follows each stage.
Succ(node) ==
    CASE node = "bump"              -> {"plan_queries"}
      [] node = "plan_queries"      -> {"search"}
      [] node = "search"            -> {"summarize_hits"}
      [] node = "summarize_hits"    -> {"extract_terms"}
      [] node = "extract_terms"     -> {"merge_concepts"}
      [] node = "merge_concepts"    -> {"persist_iteration"}
      [] node = "persist_iteration" -> {"observe"}
      [] node = "observe"           -> {"mutate_queries", "END"}
      [] node = "mutate_queries"    -> {"bump"}
      [] node = "END"               -> {"DONE"}
      [] OTHER                      -> {}

\* C9: the stages of a cycle run in the order plan_queries, search,
\* summarize_hits, extract_terms, merge_concepts, persist_iteration, observe,
\* one at a time; a stage hands over to the next stage or the run fails in it.
\* observe is followed by mutate_queries, the bump of the counter and the next
\* plan_queries when stop is false, and by the end of the run when stop is true.
\* stop is assigned by observe alone, and observe starts only from a finished
\* persist_iteration of the same cycle.
C9_StageOrder ==
    [][ /\ pc' # pc => pc' \in Succ(pc) \cup (IF pc \in Nodes THEN Failures ELSE {})
        /\ pc = "observe" /\ pc' # pc => (pc' = "END" <=> stop') /\ (pc' = "mutate_queries" <=> ~stop')
        /\ stop' # stop => pc = "observe"
        /\ pc' = "observe" /\ pc' # pc =>
              /\ pc = "persist_iteration"
              /\ Len(persisted') = iteration
              /\ persisted'[iteration].iteration = iteration
              /\ Len(observed) = iteration - 1
      ]_vars

\* C9 witness: the second cycle's plan_queries has run after the first cycle's
\* observe left stop false and mutate_queries ran.
C9_Witness ==
    /\ pc = "search"
    /\ iteration = 2
    /\ Len(persisted) = 1
    /\ Len(observed) = 1
    /\ ~observed[1].stop
    /\ tried_queries # <<>>

\* The query batches of the cycles 1..n, as persist_iteration saved them.
RECURSIVE Batches(_)
Batches(n) == IF n = 0 THEN <<>> ELSE Batches(n - 1) \o persisted[n].queries

\* The prefixes of qs that hold at least one query.
Issued(qs) == {SubSeq(qs, 1, n) : n \in 1..Len(qs)}

\* C11: tried_queries is the concatenation, in order, of the query batches
\* searched so far, nothing removed and nothing truncated: after N whole cycles
\* the batches of cycles 1..N; inside a cycle also that cycle's batch once
\* search has run; and when a retrieval raised, the queries issued up to and
\* including the one that failed.
C11_TriedIsConcatenation ==
    LET done == Batches(Len(persisted)) IN
    /\ Len(persisted) \in {iteration, iteration - 1}
    /\ Len(persisted) = iteration => tried_queries = done
    /\ Len(persisted) # iteration =>
         CASE pc \in {"plan_queries", "search"} -> tried_queries = done
           [] pc \in {"summarize_hits", "extract_terms", "merge_concepts",
                      "persist_iteration", "TypeError"} ->
                tried_queries = done \o current_queries
           [] pc = "RetrievalError" ->
                \E qs \in Issued(current_queries) : tried_queries = done \o qs
           [] OTHER ->
                tried_queries \in {done, done \o current_queries}

\* C11 witness: two cycles searched the same two queries, the list holds each
\* of them twice, and the second cycle's search found nothing.
C11_Witness ==
    /\ pc = "observe"
    /\ iteration = 2
    /\ tried_queries = <<"q1", "q2", "q1", "q2">>
    /\ run_results = <<>>
    /\ persisted[1].delta # <<>>

\* C10 (as stated): search in the first cycle never runs with zero queries.
C10_AsStated ==
    pc = "search" /\ iteration = 1 => current_queries # <<>>

(***************************************************************************)
(*                      CLAIMS ABOUT THE MERGER                            *)
(***************************************************************************)

\* Every candidate merged so far, in merge order.
AllMerged == Flatten(merged)

\* The orders in which n candidates can be merged.
Orders(n) == Permutations(1..n)
Reorder(seq, f) == [i \in 1..Len(seq) |-> seq[f[i]]]

\* The map that merging cands into an empty ontology, as one batch, gives.
MergeAll(cands) == MergeLoop([onto |-> <<>>, delta |-> {}], cands).onto

Count(x, seq) == Cardinality({i \in 1..Len(seq) : seq[i] = x})
SameBag(s, t) == \A x \in SeqToSet(s) \cup SeqToSet(t) : Count(x, s) = Count(x, t)

\* Two maps with the same identities and, per identity, the same magnification
\* set, applies-to set, text length and evidence references up to their order.
SameUpToOrder(o1, o2) ==
    /\ DOMAIN o1 = DOMAIN o2
    /\ \A n \in DOMAIN o1 :
        /\ o1[n].mags = o2[n].mags
        /\ o1[n].applies_to = o2[n].applies_to
        /\ Len(o1[n].text) = Len(o2[n].text)
        /\ SameBag(o1[n].evidence, o2[n].evidence)

ReMerged ==
    /\ pc = "give"
    /\ Len(merged) >= 2
    /\ merged[Len(merged)] # <<>>
    /\ SeqToSet(merged[Len(merged)])
          \subseteq SeqToSet(Flatten(SubSeq(merged, 1, Len(merged) - 1)))

\* The evidence references a batch appends to identity n, in order.
RECURSIVE EvidenceOf(_, _)
EvidenceOf(n, cands) ==
    IF cands = <<>> THEN <<>>
    ELSE (IF Accepted(Head(cands)) /\ CandName(Head(cands)) = n
          THEN AddEvidence(<<>>, CandEvidence(Head(cands)))
          ELSE <<>>) \o EvidenceOf(n, Tail(cands))

CandidatesOf(n) ==
    {AllMerged[i] : i \in {j \in 1..Len(AllMerged) :
                            Accepted(AllMerged[j]) /\ CandName(AllMerged[j]) = n}}

SetMin(S) == CHOOSE x \in S : \A y \in S : x <= y

SameTriple(r, q) == r.search_id = q.search_id /\ r.title = q.title /\ r.url = q.url

\* C1: record_results is idempotent.  From every store the cache can reach, and
\* for every search_id and items list, a second bulk_insert_results with the same
\* arguments returns 0 and leaves the rows as the first call left them, and each
\* item of the list is then stored as exactly one row.  The calls actually made
\* return 0 exactly when they left the rows unchanged.
C1_RecordResultsIdempotent ==
    /\ \A sid \in SearchIds, items \in ItemLists :
          LET first  == BulkInsert(results, sqlite_sequence.results, sid, items)
              second == BulkInsert(first.rows, first.seq, sid, items)
          IN  /\ second.count = 0
              /\ second.rows = first.rows
              /\ \A i \in 1..Len(items) :
                    Cardinality({r \in first.rows :
                        SameTriple(r, Record(sid, items[i]))}) = 1
    /\ lastCall.op = "bulk_insert_results" => (lastCall.ret = 0 <=> ~changed)

\* C1 witness: a call with a non-empty items list whose items were all stored
\* already returned 0 and changed nothing.
C1_Witness ==
    /\ lastCall.op = "bulk_insert_results"
    /\ lastCall.n > 0
    /\ lastCall.ret = 0
    /\ ~changed
    /\ results # {}

\* C2: no two result rows share (search_id, title, url), whatever sequence of
\* record_search, record_results and record_extraction calls was made; a missing
\* or null title or url is stored as the empty string, never as NULL.
C2_UniqueTriple ==
    /\ \A r, q \in results : r # q => ~SameTriple(r, q)
    /\ \A r \in results : r.title # None /\ r.url # None

\* C2 witness: a single items list held a duplicate (fewer rows added than items
\* given), and a row whose item had no title is stored with the empty title.
C2_Witness ==
    /\ lastCall.op = "bulk_insert_results"
    /\ lastCall.n = 2
    /\ lastCall.ret = 1
    /\ \E r \in results : r.payload.title = None /\ r.title = ""
    /\ Len(searches) > 0
    /\ Len(extractions) > 0

\* The triple of the record built for an item of writer w.
Stored(w, i) == Record(writers[w].search_id, writers[w].items[i])

\* The rows holding the triple of a record.
RowsOf(rec) == {r \in results : SameTriple(r, rec)}

InitCache == InitCacheVars /\ InitRunVarsIdle /\ InitHttpVarsIdle /\ InitPmVarsIdle /\ InitWrVarsIdle
                 /\ InitSnapVarsIdle
                 /\ InitRepairVarsIdle
                 /\ InitToolVarsIdle
NextCache == RecordSearch \/ RecordResults \/ RecordExtraction
SpecCache == InitCache /\ [][NextCache]_vars

InitStorage == InitCache

NextStorage ==
    Tick \/ StoreSearch \/ StoreWrite \/ StoreExtraction \/ StoreRead \/ StoreSelect

SpecStorage == InitStorage /\ [][NextStorage]_vars

\* C15: every insert_search call (that of write_results too) adds exactly one row to searches and leaves
\* the earlier rows as they were, also when keyword and source equal those of an
\* earlier row; the id it returns is the new row's id and is greater than the id
\* of every earlier row.
C15_InsertSearchAlwaysAdds ==
    [][ (searches' # searches \/ (lastCall'.op = "insert_search" /\ lastCall' # lastCall)) =>
          /\ lastCall'.op \in {"insert_search", "write_results"}
          /\ Len(searches') = Len(searches) + 1
          /\ SubSeq(searches', 1, Len(searches)) = searches
          /\ lastCall'.op = "insert_search" => lastCall'.ret = searches'[Len(searches')].id
          /\ \A i \in 1..Len(searches) : searches[i].id < searches'[Len(searches')].id
      ]_vars

\* C15 witness: two calls with the same keyword and source in the same second
\* left two rows, the second with the greater id.
C15_Witness ==
    /\ Len(searches) = 2
    /\ searches[1].keyword = searches[2].keyword
    /\ searches[1].source = searches[2].source
    /\ searches[1].requested_at = searches[2].requested_at
    /\ searches[1].id < searches[2].id
    /\ lastCall = [op |-> "insert_search", n |-> 0, ret |-> searches[2].id]


\* The rows stored under a search id.
RowsUnder(rows, sid) == {r \in rows : r.search_id = sid}

\* C16: results are deduplicated within a search only. What a
\* bulk_insert_results call under a search id adds and counts depends on the
\* rows already under that id and on no row of another search: an item whose
\* triple is not yet under the id is added and counted, whatever the other
\* searches hold.
C16_DedupWithinSearchOnly ==
    \A sid \in SearchIds, items \in WriteLists \cup {<<item>> : item \in ItemPool} :
        LET out == BulkInsert(results, sqlite_sequence.results, sid, items)
            own == BulkInsert(RowsUnder(results, sid), sqlite_sequence.results, sid, items)
        IN  /\ out.count = own.count
            /\ out.rows = results \cup own.rows
            /\ \A i \in 1..Len(items) :
                 \E r \in RowsUnder(out.rows, sid) : SameTriple(r, Record(sid, items[i]))

\* C16 witness: two write_results calls for the same keyword and source
\* recorded the same item; it is stored under both search ids and the second
\* call reported it as added.
C16_Witness ==
    /\ Len(searches) = 2
    /\ searches[1].keyword = searches[2].keyword
    /\ searches[1].source = searches[2].source
    /\ lastCall = [op |-> "write_results", n |-> 1, ret |-> 1]
    /\ \E r1 \in RowsUnder(results, searches[1].id), r2 \in RowsUnder(results, searches[2].id) :
         r1.payload = r2.payload
    /\ Cardinality(results) = 2

\* C17 (as stated): in what list_searches returned to read_results or to
\* _select_search, of every two searches the one recorded later (the greater id)
\* comes first, and _select_search picks the first.
C17_AsStated ==
    lastRead.op \in {"read_results", "select_search"} =>
        /\ \A i, j \in 1..Len(lastRead.listed) :
              i < j => lastRead.listed[i] > lastRead.listed[j]
        /\ lastRead.op = "select_search" => lastRead.picked = lastRead.listed[1]

\* The entries of a bundle, each with the source of its group.
EntriesOf(bundle) ==
    UNION { { <<bundle[g].source, bundle[g].searches[i]>> :
                i \in 1..Len(bundle[g].searches) } : g \in 1..Len(bundle) }

\* The number of entries of the groups 1..n of a bundle.
RECURSIVE EntryCount(_, _)
EntryCount(bundle, n) ==
    IF n = 0 THEN 0 ELSE EntryCount(bundle, n - 1) + Len(bundle[n].searches)

\* The bundle holds the searches of keyword k (and of source s when one is given),
\* each once and under its own source, each with the rows and the extractions
\* stored under its id and no others; it has no group when nothing matches.
ExactBundle(k, s, bundle) ==
    LET want == { i \in 1..Len(searches) :
                    searches[i].keyword = k /\ (s = None \/ searches[i].source = s) } IN
    /\ EntryCount(bundle, Len(bundle)) = Cardinality(want)
    /\ \A i \in want :
         \E e \in EntriesOf(bundle) :
            /\ e[1] = searches[i].source
            /\ e[2].search_id = searches[i].id
            /\ e[2].results =
                 { [title |-> r.title, url |-> r.url, snippet |-> r.snippet] :
                     r \in RowsUnder(results, searches[i].id) }
            /\ e[2].extractions =
                 { extractions[x] : x \in { y \in 1..Len(extractions) :
                                              extractions[y].search_id = searches[i].id } }
    /\ \A g, h \in 1..Len(bundle) : bundle[g].source = bundle[h].source => g = h
    /\ want = {} => bundle = <<>>

\* C18: whatever the store holds, read_results(K, S?) returns exactly the
\* searches recorded with keyword K (and source S when given), each once, each
\* with exactly the result rows and extraction rows stored under its id, and a
\* bundle without sources when no search matches; the last bundle read was such
\* a bundle.
C18_ReadResultsExact ==
    /\ \A k \in ReadKeywords, s \in ReadSources :
         \A listed \in ListSearches(k, s) :
            ExactBundle(k, s, Bundle(listed, Len(listed)))
    /\ lastRead.op = "read_results" =>
         \A e \in EntriesOf(lastRead.bundle) :
            \E i \in 1..Len(searches) :
               /\ searches[i].id = e[2].search_id
               /\ searches[i].keyword = lastRead.keyword
               /\ searches[i].source = e[1]
               /\ lastRead.source # None => e[1] = lastRead.source

\* C18 witness: two searches of keyword k1, the first from pubmed with a result
\* row and an extraction, the second from another source; the read of
\* (k1, pubmed) returned the first search alone, with its row and extraction.
C18_Witness ==
    /\ Len(searches) = 2
    /\ searches[2].keyword = "k1" /\ searches[2].source = "other"
    /\ RowsUnder(results, 2) # {}
    /\ lastRead.op = "read_results"
    /\ lastRead.source = "pubmed"
    /\ Len(lastRead.bundle) = 1
    /\ Len(lastRead.bundle[1].searches) = 1
    /\ lastRead.bundle[1].searches[1].search_id = 1
    /\ lastRead.bundle[1].searches[1].results = ListResults(1)
    /\ lastRead.bundle[1].searches[1].results # {}
    /\ lastRead.bundle[1].searches[1].extractions # {}

\* A candidate without a name or a text once whitespace is trimmed, or without
\* magnifications.
Dropped(c) == Strip(c.name_snake) = <<>> \/ Strip(c.text) = <<>> \/ c.mags = <<>>

\* Candidates lacking, one each: the name, all but blanks of the name, the text,
\* all but blanks of the text, the magnifications.
DroppedPool ==
    { [name_snake |-> <<>>, text |-> <<"x">>, mags |-> <<"10x">>, applies_to |-> <<>>,
       origin_title |-> "t1", origin_url |-> "u1"],
      [name_snake |-> <<" ">>, text |-> <<"x">>, mags |-> <<"10x">>, applies_to |-> <<>>,
       origin_title |-> "t1", origin_url |-> "u1"],
      [name_snake |-> <<"a">>, text |-> <<>>, mags |-> <<"10x">>, applies_to |-> <<>>,
       origin_title |-> "t1", origin_url |-> "u1"],
      [name_snake |-> <<"a">>, text |-> <<" ", " ">>, mags |-> <<"10x">>,
       applies_to |-> <<"other">>, origin_title |-> "t1", origin_url |-> "u1"],
      [name_snake |-> <<"a">>, text |-> <<"x">>, mags |-> <<>>, applies_to |-> <<>>,
       origin_title |-> "t1", origin_url |-> "u1"] }

\* C19: a candidate whose name or text is empty after trimming, or whose
\* magnification list is empty, is dropped by merge_concepts. Merging it alone
\* changes neither the ontology nor the delta; a batch with it before or after
\* another candidate merges as the batch without it; and the merge that just ran
\* left what the merge of its other candidates leaves.
C19_RejectedDropped ==
    LET st0 == [onto |-> ontology, delta |-> {}] IN
    /\ \A r \in DroppedPool :
         /\ Dropped(r)
         /\ MergeOne(st0, r) = st0
         /\ \A c \in CandPool :
              /\ MergeLoop(st0, <<r, c>>) = MergeLoop(st0, <<c>>)
              /\ MergeLoop(st0, <<c, r>>) = MergeLoop(st0, <<c>>)
    /\ pc = "give" /\ merged # <<>> =>
         LET kept == SelectSeq(candidates, LAMBDA c : ~Dropped(c))
             out == MergeLoop([onto |-> before, delta |-> {}], kept) IN
         /\ ontology = out.onto
         /\ delta_concepts = {Strip(kept[i].name_snake) : i \in 1..Len(kept)}

\* C19 witness: the first merge of a run took a batch whose first candidate has
\* a blank text and whose second is valid; only the second left an entry.
C19_Witness ==
    /\ pc = "give"
    /\ Len(merged) = 1
    /\ Len(candidates) = 2
    /\ Dropped(candidates[1])
    /\ ~Dropped(candidates[2])
    /\ Strip(candidates[1].name_snake) # Strip(candidates[2].name_snake)
    /\ DOMAIN ontology = {Strip(candidates[2].name_snake)}
    /\ delta_concepts = DOMAIN ontology

\* The valid candidates of the last batch that name identity n.
BatchFor(n) ==
    { i \in 1..Len(candidates) : ~Dropped(candidates[i]) /\ Strip(candidates[i].name_snake) = n }

\* C20: when valid candidates are merged into an identity that existed before the
\* merge, the entry's magnification set is its old set united with the
\* candidates' magnifications, and its applies-to set is its old set united with
\* the candidates' applies-to classes, the target class for a candidate that
\* names none.
C20_UnionOnExisting ==
    pc = "give" /\ merged # <<>> =>
        \A n \in DOMAIN before :
            /\ n \in DOMAIN ontology
            /\ ontology[n].mags =
                 before[n].mags \cup UNION { SeqToSet(candidates[i].mags) : i \in BatchFor(n) }
            /\ ontology[n].applies_to =
                 before[n].applies_to
                 \cup UNION { IF candidates[i].applies_to = <<>> THEN {class_name}
                              ELSE SeqToSet(candidates[i].applies_to) : i \in BatchFor(n) }

\* C20 witness: an entry that had one magnification and the target class alone
\* took a candidate with another magnification and another class, and holds both
\* of each.
C20_Witness ==
    /\ pc = "give"
    /\ merged # <<>>
    /\ \E n \in DOMAIN before :
         /\ BatchFor(n) # {}
         /\ before[n].mags = {"10x"}
         /\ before[n].applies_to = {class_name}
         /\ ontology[n].mags = {"10x", "20x"}
         /\ ontology[n].applies_to = {class_name, "other"}

(***************************************************************************)
(*        deleting a search through a cache connection (db.py)             *)
(***************************************************************************)

\* PRAGMA foreign_keys of a connection from get_connection: initialize_schema
\* sets it ON for its own connection only, get_connection sets nothing, so the
\* default of the SQLite build applies (OFF unless the library was compiled
\* with SQLITE_DEFAULT_FOREIGN_KEYS=1).
ConnectionForeignKeys == BOOLEAN

\* DELETE FROM searches WHERE id = ? executed and committed through db_cursor.
\* ON DELETE CASCADE acts only when the connection enforces foreign keys.
DeleteSearch == \E id \in SearchIds, foreign_keys \in ConnectionForeignKeys :
    /\ \E i \in 1..Len(searches) : searches[i].id = id
    /\ searches' = SelectSeq(searches, LAMBDA row : row.id # id)
    /\ results' = IF foreign_keys THEN {r \in results : r.search_id # id} ELSE results
    /\ extractions' = IF foreign_keys
                      THEN SelectSeq(extractions, LAMBDA row : row.search_id # id)
                      ELSE extractions
    /\ lastCall' = [op |-> "delete_search", n |-> 0, ret |-> id]
    /\ changed' = (results' # results)
    /\ UNCHANGED <<sqlite_sequence, now, lastRead>>
    /\ UNCHANGED <<runVars, httpVars, pmVars, wrVars, snapVars, repairVars, toolVars>>

\* write_results, while ids are left.
CascadeWrite == sqlite_sequence.searches < MaxSearches /\ StoreWrite

\* run_extraction(keyword, source, search_id) without a payload: the search
\* exists and has cached results.
CascadeExtraction == \E i \in 1..Len(searches) :
    /\ ListResults(searches[i].id) # {}
    /\ InsertExtraction(searches[i].id, searches[i].keyword, PayloadDict(EmptyExtraction))
    /\ UNCHANGED <<runVars, httpVars, pmVars, wrVars, snapVars, repairVars, toolVars>>

InitCascade == InitCache
NextCascade == Tick \/ CascadeWrite \/ CascadeExtraction \/ DeleteSearch
SpecCascade == InitCascade /\ [][NextCascade]_vars

(***************************************************************************)
(*          validate_and_persist (ontology_server.py)                      *)
(***************************************************************************)

\* for field in [...]: if field not in item: errors.append("Missing field: ...")
RECURSIVE MissingFields(_, _)
MissingFields(item, fields) ==
    IF fields = <<>> THEN <<>>
    ELSE (IF Head(fields) \notin item.has
          THEN <<[field |-> Head(fields), problem |-> "Missing field"]>> ELSE <<>>)
         \o MissingFields(item, Tail(fields))

\* item[field] or []
Values(value) == IF value.tag = "list" THEN value.list ELSE <<>>

\* set(item["magnifications"]) of null or of a number, and len() of a number,
\* end validate_item with a TypeError.
ItemRaises(item) ==
    \/ "magnifications" \in item.has /\ item.magnifications.tag # "list"
    \/ "positives" \in item.has /\ item.positives.tag = "int"
    \/ "negatives" \in item.has /\ item.negatives.tag = "int"

CardinalityProblem(item, field, value) ==
    IF field \in item.has /\ ~(3 <= Len(Values(value)) /\ Len(Values(value)) <= 6)
    THEN <<[field |-> field, problem |-> "must have 3-6 items"]>> ELSE <<>>

\* validate_item: the error list of an item on which it does not raise; ok is
\* that the list is empty.
validate_item(item) ==
    MissingFields(item, Fields)
    \o (IF "concept_type" \in item.has /\ item.concept_type \notin ALLOWED_TYPES
        THEN <<[field |-> "concept_type", problem |-> "must be one of ALLOWED_TYPES"]>> ELSE <<>>)
    \o (IF "magnifications" \in item.has
           /\ ~(SeqToSet(item.magnifications.list) \subseteq ALLOWED_MAGS)
        THEN <<[field |-> "magnifications", problem |-> "must be subset of ALLOWED_MAGS"]>> ELSE <<>>)
    \o CardinalityProblem(item, "positives", item.positives)
    \o CardinalityProblem(item, "negatives", item.negatives)

\* errors.extend([f"item[{index}]: {error}" ...]) over enumerate(items)
RECURSIVE BatchErrors(_, _)
BatchErrors(items, index) ==
    IF items = <<>> THEN <<>>
    ELSE LET item_errors == validate_item(Head(items)) IN
         [i \in 1..Len(item_errors) |->
             [index |-> index, field |-> item_errors[i].field,
              problem |-> item_errors[i].problem]]
         \o BatchErrors(Tail(items), index + 1)

\* slugify: alphanumerics in lower case, every other character a dash; the
\* split on "-" joined with "-" gives the same string back.
slugify(value) ==
    LET safe == [i \in 1..Len(value) |->
                    IF IsAlnum(value[i]) THEN Lower(value[i]) ELSE "-"] IN
    IF safe = <<>> THEN <<"c", "o", "n", "c", "e", "p", "t">> ELSE safe

\* The synonyms normalize_items keeps of one item: stripped, lower case, not
\* empty and not seen before in the batch.
RECURSIVE CleanSynonyms(_, _)
CleanSynonyms(synonyms, seen) ==
    IF synonyms = <<>> THEN <<>>
    ELSE LET cleaned == Strip(Head(synonyms))
             lowered == [i \in 1..Len(cleaned) |-> Lower(cleaned[i])] IN
         IF lowered # <<>> /\ lowered \notin seen
         THEN <<lowered>> \o CleanSynonyms(Tail(synonyms), seen \cup {lowered})
         ELSE CleanSynonyms(Tail(synonyms), seen)

RECURSIVE normalize_items(_, _, _)
normalize_items(items, namespace, seen_synonyms) ==
    IF items = <<>> THEN <<>>
    ELSE LET item == Head(items)
             synonyms == CleanSynonyms(item.synonyms, seen_synonyms) IN
         << [item EXCEPT !.synonyms = synonyms,
                         !.id = namespace \o <<"/">> \o slugify(item.name)] >>
         \o normalize_items(Tail(items), namespace, seen_synonyms \cup SeqToSet(synonyms))

dataset_name == <<"D", "s">>

\* persist_run: concepts.json, ontology.json and the run directory named by the
\* current second are written (an older run directory of that second is
\* written over).
persist_run(raw, validated) ==
    /\ concepts_file' = File(validated)
    /\ ontology_file' = File([i \in 1..Len(validated) |->
                                [id |-> validated[i].id, name |-> validated[i].name,
                                 concept_type |-> validated[i].concept_type]])
    /\ run_dirs' = {d \in run_dirs : d.name # now}
                     \cup {[name |-> now, raw_model |-> raw, validated |-> validated]}

\* The concept objects handed in.
TumorSeed ==
    Concept(<<"T", "u", "m", "o", "r">>, <<Carcinoma, Metastasis>>, "class",
            List(<<"cohesive epithelial islands", "nuclear atypia", "mitoses">>),
            List(<<"ordered lymphoid follicles", "adipocytes", "dense collagen stroma">>),
            List(<<"20x", "40x">>))
NormalSeed ==
    Concept(<<"N", "o", "r", "m", "a", "l">>, <<Benign>>, "class",
            List(<<"germinal centers", "sinus histiocytes", "regular stromal collagen">>),
            List(<<"malignant epithelial clusters", "necrosis">>),
            List(<<"10x", "20x">>))
Stroma ==
    Concept(<<"S", "t", "r", "o", "m", "a", " ", "1">>,
            << <<" ", "C", "a", "r", "c", "i", "n", "o", "m", "a">>, <<" ">>, Benign >>,
            "compartment",
            List(<<"collagen bundles", "fibroblasts", "vessels", "sparse cells">>),
            List(<<"tumor nests", "necrosis", "follicles">>),
            List(<<>>))

\* The arguments given: the answer of call_llm, batches of valid objects, and
\* batches with objects that lack a key or hold a wrong value.
VpInputs ==
    { [array |-> FALSE, items |-> <<>>] } \cup
    { [array |-> TRUE, items |-> batch] : batch \in
        { <<>>,
          <<TumorSeed>>,
          <<TumorSeed, Stroma>>,
          <<Stroma, TumorSeed>>,
          <<TumorSeed, NormalSeed>>,
          <<Without(Stroma, "concept_type"), TumorSeed,
            [Stroma EXCEPT !.magnifications = List(<<"5x">>), !.concept_type = "organ"]>>,
          <<[TumorSeed EXCEPT !.positives = Null], [Stroma EXCEPT !.negatives = List(<<"n1", "n2", "n3", "n4", "n5", "n6", "n7">>)]>>,
          <<TumorSeed, [Stroma EXCEPT !.positives = Number]>>,
          <<[TumorSeed EXCEPT !.magnifications = Null]>> } }

\* validate_and_persist(dataset_name, concepts_json)
ValidateAndPersist == \E input \in VpInputs :
    LET items == input.items
        raises == \E i \in 1..Len(items) : ItemRaises(items[i])
        errors == BatchErrors(items, 0)
        ok == input.array /\ ~raises /\ errors = <<>>
        normalized == normalize_items(items, slugify(dataset_name), {})
    IN
    /\ vp_in' = input
    /\ vp_out' = IF ~input.array
                 THEN [status |-> "error", count |-> 0,
                       errors |-> <<[index |-> -1, field |-> "",
                                     problem |-> "Invalid JSON array"]>>]
                 ELSE IF raises
                 THEN [status |-> "TypeError", count |-> 0, errors |-> <<>>]
                 ELSE IF errors # <<>>
                 THEN [status |-> "invalid", count |-> 0, errors |-> errors]
                 ELSE [status |-> "ok", count |-> Len(normalized), errors |-> <<>>]
    /\ IF ok THEN persist_run(items, normalized)
       ELSE UNCHANGED <<concepts_file, ontology_file, run_dirs>>
    /\ UNCHANGED versions
    /\ UNCHANGED <<cacheVars, runVars, httpVars, pmVars, wrVars, repairVars, toolVars>>

InitPersist == InitCache
NextPersist == Tick \/ ValidateAndPersist
SpecPersist == InitPersist /\ [][NextPersist]_vars

(***************************************************************************)
(*          the ontology tree builder (ontology_builder.py)                *)
(***************************************************************************)

\* _normalize_concepts: an object alone, the objects of a list, or nothing.
RECURSIVE Dicts(_)
Dicts(entries) ==
    IF entries = <<>> THEN <<>>
    ELSE (IF Head(entries).isdict THEN <<Head(entries).item>> ELSE <<>>)
         \o Dicts(Tail(entries))

_normalize_concepts(extraction_payload) ==
    IF extraction_payload.kind \in {"dict", "list"}
    THEN Dicts(extraction_payload.entries) ELSE <<>>

\* ORDER BY created_at DESC
CreatedDesc(rows) ==
    \A i, j \in 1..Len(rows) : i < j => rows[i].created_at >= rows[j].created_at

\* What list_extractions() may return: every row, latest created_at first; rows
\* of the same second come in whatever order the query plan yields.
ListAllExtractions ==
    { [i \in 1..Len(extractions) |-> extractions[p[i]]] :
        p \in Permutations(1..Len(extractions)) }
        \cap { rows \in [1..Len(extractions) -> SeqToSet(extractions)] : CreatedDesc(rows) }

RECURSIVE ExtractedConcepts(_)
ExtractedConcepts(records) ==
    IF records = <<>> THEN <<>>
    ELSE _normalize_concepts(Head(records).extraction) \o ExtractedConcepts(Tail(records))

build_ontology_tree(include_base, records) ==
    (IF include_base THEN BASE_ONTOLOGY_TREE ELSE <<>>) \o ExtractedConcepts(records)

\* build_and_save_tree(include_base) with the default version name: the tree is
\* written to ontology_<utc second>.json, over a file of the same second.
BuildAndSaveTree == \E include_base \in BOOLEAN, records \in ListAllExtractions :
    /\ versions' = {v \in versions : v.name # now}
                     \cup {[name |-> now, tree |-> build_ontology_tree(include_base, records)]}
    /\ UNCHANGED <<concepts_file, ontology_file, run_dirs, vp_in, vp_out>>
    /\ UNCHANGED <<cacheVars, runVars, httpVars, pmVars, wrVars, repairVars, toolVars>>

\* The payloads stored with an extraction.
Payloads ==
    { PayloadDict(EmptyExtraction), PayloadDict(TumorSeed),
      [kind |-> "list",
       entries |-> <<Object(Stroma), [isdict |-> FALSE, item |-> EmptyExtraction],
                     Object(NormalSeed)>>],
      [kind |-> "other", entries |-> <<>>] }

TreeExtraction == \E payload \in Payloads :
    InsertExtraction(1, "k1", payload)
    /\ UNCHANGED <<runVars, httpVars, pmVars, wrVars, snapVars, repairVars, toolVars>>

InitTree == InitCache
NextTree == Tick \/ TreeExtraction \/ BuildAndSaveTree
SpecTree == InitTree /\ [][NextTree]_vars

\* C21: the ontology map only grows. No step removes an identity, and for every
\* identity no step removes a magnification or an applies-to class, shortens the
\* evidence list or changes what it already held, or makes the text longer.
C21_OntologyOnlyGrows ==
    [][ \A n \in DOMAIN ontology :
          /\ n \in DOMAIN ontology'
          /\ ontology[n].mags \subseteq ontology'[n].mags
          /\ ontology[n].applies_to \subseteq ontology'[n].applies_to
          /\ Len(ontology[n].evidence) <= Len(ontology'[n].evidence)
          /\ SubSeq(ontology'[n].evidence, 1, Len(ontology[n].evidence)) = ontology[n].evidence
          /\ Len(ontology'[n].text) <= Len(ontology[n].text)
      ]_vars

\* C21 witness: a later merge gave an existing identity a shorter text, a further
\* magnification and a further evidence entry, next to a second identity.
C21_Witness ==
    /\ pc = "give"
    /\ Len(merged) >= 2
    /\ Cardinality(DOMAIN ontology) = 2
    /\ \E n \in DOMAIN before :
         /\ Len(ontology[n].text) < Len(before[n].text)
         /\ before[n].mags # ontology[n].mags
         /\ Len(before[n].evidence) >= 1
         /\ Len(ontology[n].evidence) > Len(before[n].evidence)

\* The characters that folding removes.
Folded(ch) == ch \in {" ", "_", "-", "."}

\* The normalized identity of a name: case, whitespace and punctuation folded.
RECURSIVE Fold(_)
Fold(name) ==
    IF name = <<>> THEN <<>>
    ELSE (IF Folded(Head(name)) THEN <<>> ELSE <<Lower(Head(name))>>) \o Fold(Tail(name))

\* C22 (as stated): the ontology map never holds two entries whose names fold
\* to the same normalized identity.
C22_AsStated ==
    \A n, m \in DOMAIN ontology : Fold(n) = Fold(m) => n = m

\* The last delta file that holds identity n.
LastDeltaWith(n) ==
    LET i == CHOOSE i \in 1..Len(persisted) :
                /\ n \in DOMAIN persisted[i].delta
                /\ \A j \in (i + 1)..Len(persisted) : n \notin DOMAIN persisted[j].delta
    IN persisted[i].delta

\* C23: at DONE the exported snapshot is the whole ontology map: its keys are
\* the union of the keys of all delta files persisted during the run, and every
\* entry has the value the last delta holding it recorded, which is its value in
\* the ontology.
C23_FinalSnapshotIsFull ==
    pc = "DONE" =>
        /\ final_ontology = ontology
        /\ DOMAIN final_ontology =
             UNION { DOMAIN persisted[i].delta : i \in 1..Len(persisted) }
        /\ \A n \in DOMAIN final_ontology : final_ontology[n] = LastDeltaWith(n)[n]

\* C23 witness: a run of two cycles whose deltas hold different identities is
\* DONE; the snapshot has the four identities, the last delta only two.
C23_Witness ==
    /\ pc = "DONE"
    /\ Len(persisted) = 2
    /\ Cardinality(DOMAIN final_ontology) = 4
    /\ Cardinality(DOMAIN persisted[1].delta) = 2
    /\ Cardinality(DOMAIN persisted[2].delta) = 2

\* The concept schema: every key present, concept_type one of the five types,
\* magnifications a list within {10x, 20x, 40x}, and 3 to 6 positives and
\* negatives.
IsListOf(value, lo, hi) == value.tag = "list" /\ lo <= Len(value.list) /\ Len(value.list) <= hi

BadFields(item) ==
    {f \in SeqToSet(Fields) : f \notin item.has}
    \cup (IF item.concept_type \in ALLOWED_TYPES THEN {} ELSE {"concept_type"})
    \cup (IF item.magnifications.tag = "list"
             /\ SeqToSet(item.magnifications.list) \subseteq ALLOWED_MAGS
          THEN {} ELSE {"magnifications"})
    \cup (IF IsListOf(item.positives, 3, 6) THEN {} ELSE {"positives"})
    \cup (IF IsListOf(item.negatives, 3, 6) THEN {} ELSE {"negatives"})

Conforms(item) == BadFields(item) = {}

\* C24 (as stated): a validate_and_persist call on a batch with an item that
\* fails validation leaves concepts.json, ontology.json and the run directories
\* as they were and answers with an error for each failing item that names a
\* missing or invalid field of it; only a batch whose items are all valid is
\* persisted.
C24_AsStated ==
    [][ <<concepts_file, ontology_file, run_dirs, vp_in, vp_out>>'
            # <<concepts_file, ontology_file, run_dirs, vp_in, vp_out>>
        => LET items == vp_in'.items
               failing == {i \in 1..Len(items) : ~Conforms(items[i])}
               persisted_now == <<concepts_file, ontology_file, run_dirs>>'
                                  # <<concepts_file, ontology_file, run_dirs>>
           IN /\ failing # {} =>
                   /\ ~persisted_now
                   /\ \A i \in failing :
                        \E e \in 1..Len(vp_out'.errors) :
                            /\ vp_out'.errors[e].index = i - 1
                            /\ vp_out'.errors[e].field \in BadFields(items[i])
              /\ persisted_now => failing = {} ]_vars

\* Every concept object in a snapshot on disk.
SnapshotConcepts ==
    SeqToSet(concepts_file.items)
    \cup UNION { SeqToSet(d.validated) : d \in run_dirs }
    \cup UNION { SeqToSet(v.tree) : v \in versions }

\* C25 (as stated): every concept object of every persisted snapshot has an
\* allowed concept_type, magnifications within {10x, 20x, 40x}, and 3 to 6
\* positives and 3 to 6 negatives.
C25_AsStated ==
    \A item \in SnapshotConcepts :
        /\ item.concept_type \in ALLOWED_TYPES
        /\ item.magnifications.tag = "list"
        /\ SeqToSet(item.magnifications.list) \subseteq ALLOWED_MAGS
        /\ IsListOf(item.positives, 3, 6)
        /\ IsListOf(item.negatives, 3, 6)

\* C26 (as stated): every result row and every extraction row refers to a
\* search row that exists, also after a search row was deleted through a
\* connection of the cache layer.
C26_AsStated ==
    /\ \A r \in results : \E i \in 1..Len(searches) : searches[i].id = r.search_id
    /\ \A e \in 1..Len(extractions) :
          \E i \in 1..Len(searches) : searches[i].id = extractions[e].search_id

\* C27 (as stated): within one call, while every answer was a 429 or a 5xx, the
\* wait before the k-th retry is the first wait times 2^(k-1): each wait is twice
\* the one before it.
C27_AsStated ==
    \A k \in 1..Len(http_waits) :
        (\A i \in 1..k : http_log[i].kind = "response" /\ RetryStatus(http_log[i]))
            => http_waits[k] = http_waits[1] * 2 ^ (k - 1)

\* C28 (as stated): between a request and the request sent before it (its
\* retry, the next request of the search, the first request of the next search)
\* at least the minimum inter-request delay was waited.
C28_AsStated ==
    http_gap # <<>> => http_gap[1] >= NCBI_MIN_DELAY_MS

\* C29 (as stated): whenever SEARCH is about to run, the batch PLAN handed it
\* holds at least 2 and at most 4 queries.
C29_AsStated ==
    pc = "search" => 2 <= Len(current_queries) /\ Len(current_queries) <= MaxQueries

\* C30 (as stated): when SUMMARIZE is about to run, every retrieval call SEARCH
\* made in the cycle is in the search cache: a search row for the query, and
\* under that row a result row for each hit of the query.
C30_AsStated ==
    pc = "summarize_hits" =>
        \A q \in 1..Len(current_queries) :
            \E i \in 1..Len(searches) :
                /\ searches[i].keyword = current_queries[q]
                /\ \A h \in 1..Len(run_results) :
                      run_results[h].origin_query = current_queries[q] =>
                          \E r \in results : /\ r.search_id = searches[i].id
                                             /\ r.title = run_results[h].title

\* C31 (as stated): when MUTATE has run, no query of the batch it left in
\* current_queries is in the tried-queries list.
C31_AsStated ==
    pc = "bump" /\ iteration >= 1 =>
        \A i \in 1..Len(current_queries) :
            \A j \in 1..Len(tried_queries) : current_queries[i] # tried_queries[j]

\* C32 (as stated): a SUMMARIZE step never fails on a malformed answer: it
\* leaves one summary per raw result and the cycle goes on to EXTRACT.
C32_AsStated ==
    [][pc = "summarize_hits" /\ pc' # pc =>
          pc' = "extract_terms" /\ Len(summaries') = Len(run_results)]_vars

\* C33 (as stated): the candidates EXTRACT leaves are those of the well-formed
\* answers only; a unit whose answer is unparseable, no list, or a list with
\* an element that is not an object contributes none.
WellFormedOnly(s, out) ==
    IF ~out.ok \/ out.then_nonobject THEN <<>> ELSE Tagged(s, out)

RECURSIVE ExtractedAsStated(_, _, _)
ExtractedAsStated(sums, outs, n) ==
    IF n = 0 THEN <<>>
    ELSE ExtractedAsStated(sums, outs, n - 1) \o WellFormedOnly(sums[n], outs[n])

C33_AsStated ==
    [][pc = "extract_terms" /\ pc' # pc =>
          /\ pc' = "merge_concepts"
          /\ \E outs \in [1..Len(summaries) -> ExtractOutputs] :
                candidates' = ExtractedAsStated(summaries, outs, Len(summaries))]_vars

\* C34 (as stated): after a MERGE the delta set is exactly the set of identities
\* whose entry the merge created or modified.
C34_AsStated ==
    (pc = "give" /\ merged # <<>>) =>
        delta_concepts = {n \in DOMAIN ontology :
                            n \notin DOMAIN before \/ ontology[n] # before[n]}

\* C35 (as stated): every accepted candidate of the last merged batch added
\* exactly one evidence reference to the entry of its identity: an entry's
\* evidence list is longer than before the merge by the number of accepted
\* candidates of its identity (a new entry's list has that length).
C35_AsStated ==
    (pc = "give" /\ merged # <<>>) =>
        LET batch == merged[Len(merged)] IN
        \A n \in DOMAIN ontology :
            Len(ontology[n].evidence) =
                (IF n \in DOMAIN before THEN Len(before[n].evidence) ELSE 0)
                + Cardinality({i \in 1..Len(batch) :
                                Accepted(batch[i]) /\ CandName(batch[i]) = n})

\* C36: no step overwrites or deletes a per-iteration file of an earlier cycle,
\* and when the run has failed in cycle k (a retrieval that raised, or a
\* persist_iteration that raised OSError) the five files of each of the cycles
\* 1..k-1 exist, complete and with the content their own cycle dumped.
C36_EarlierArtifactsKept ==
    /\ [][\A n \in DOMAIN outdir :
            n.iteration < iteration' => (n \in DOMAIN outdir' /\ outdir'[n] = outdir[n])]_vars
    /\ [](pc \in {"RetrievalError", "OSError"} =>
            \A i \in 1..(iteration - 1) : \A k \in 1..Len(IterationFiles) :
                LET n == [kind |-> IterationFiles[k], iteration |-> i, stamp |-> now] IN
                /\ n \in DOMAIN outdir
                /\ outdir[n] = [complete |-> TRUE, iteration |-> i])

\* C36 witness: the run failed in persist_iteration of cycle 2 after writing some
\* of its files, one of them truncated; the five files of cycle 1 are there.
C36_Witness ==
    /\ pc = "OSError"
    /\ iteration = 2
    /\ Cardinality({n \in DOMAIN outdir : n.iteration = 1 /\ outdir[n].complete}) = 5
    /\ \E n \in DOMAIN outdir : n.iteration = 2 /\ ~outdir[n].complete
    /\ \E n \in DOMAIN outdir : n.iteration = 2 /\ outdir[n].complete

\* C36, second case: the run failed in the retrieval of cycle 2 and the five
\* files of cycle 1 are there.
C36_RetrievalFailed ==
    /\ pc = "RetrievalError"
    /\ iteration = 2
    /\ Cardinality({n \in DOMAIN outdir : n.iteration = 1 /\ outdir[n].complete}) = 5

\* C38: the batch PLAN leaves for SEARCH is the first four usable strings of
\* the planner's answer, whatever batch MUTATE left before; SEARCH appends
\* exactly that batch (or, when a retrieval raises, its queries up to the
\* failing one) to the tried queries; and the queries only MUTATE produces, its
\* fallback templates, are never among the tried queries.
C38_SearchRunsPlanBatch ==
    /\ [][pc' = "search" /\ pc' # pc =>
            /\ pc = "plan_queries"
            /\ \E out \in PlannerOutputs :
                  current_queries' = FirstN(UsableQueries(out), MaxQueries)]_vars
    /\ [][pc = "search" /\ pc' # pc =>
            \E n \in 0..Len(current_queries) :
                tried_queries' = tried_queries \o SubSeq(current_queries, 1, n)]_vars
    /\ [](\A i \in 1..Len(tried_queries) : \A j \in 1..Len(MutateFallback) :
            tried_queries[i] # MutateFallback[j])

\* C38 witness: the SEARCH of cycle 2 has run on the empty batch PLAN wrote over
\* the batch of the preceding MUTATE, which is never empty; the tried queries
\* are those of cycle 1.
C38_Witness ==
    /\ pc = "summarize_hits"
    /\ iteration = 2
    /\ current_queries = <<>>
    /\ tried_queries # <<>>

(***************************************************************************)
(*     THE VALIDATE-OR-REPAIR NODE (agent_lg/nodes.py, agent/spec.py)      *)
(***************************************************************************)

DefaultMaxRepairs == 2     \* int(config.get("max_repairs", 2))

ConceptType == {"class", "compartment", "morphology", "interface", "substructure"}
Magnification == {"10x", "20x", "40x"}

\* The fields of ConceptItem; synonyms has a default, extra = "forbid".
ItemFields == {"name", "definition", "synonyms", "concept_type", "positives",
               "negatives", "magnifications"}
RequiredFields == ItemFields \ {"synonyms"}

\* An element of the JSON list: the keys it has and the values the checks read.
Obj(fields, concept_type, positives, negatives) ==
    [fields |-> fields, concept_type |-> concept_type, positives |-> positives,
     negatives |-> negatives, magnifications |-> <<"10x", "40x">>]

\* ConceptItem.model_validate(obj) does not raise.
model_validate(obj) ==
    /\ RequiredFields \subseteq obj.fields
    /\ obj.fields \subseteq ItemFields
    /\ obj.concept_type \in ConceptType
    /\ SeqToSet(obj.magnifications) \subseteq Magnification

\* validate_concepts_json(text) returns (TRUE) or raises (FALSE).
validate_concepts_json(text) ==
    /\ text.kind = "json"
    /\ text.list
    /\ \A i \in 1..Len(text.items) :
        /\ model_validate(text.items[i])
        /\ ~(Len(text.items[i].positives) < 3 \/ Len(text.items[i].negatives) < 3)

\* str(e) of the exception validate_concepts_json raises, by its kind.
ErrorOf(text) == IF text.kind = "json" THEN "ValidationError" ELSE "JSONDecodeError"

GoodObj == Obj(RequiredFields, "morphology", <<"p1", "p2", "p3">>, <<"n1", "n2", "n3">>)
FewPositives == Obj(ItemFields, "class", <<"p1", "p2">>, <<"n1", "n2", "n3">>)
ExtraField == Obj(ItemFields \cup {"id"}, "class", <<"p1", "p2", "p3">>, <<"n1", "n2", "n3">>)

\* What the model answers: text that is no JSON, JSON that is no list, and
\* JSON lists.
LlmAnswers ==
    { JsonText("text", FALSE, <<>>),
      JsonText("json", FALSE, <<>>),
      JsonText("json", TRUE, <<>>),
      JsonText("json", TRUE, <<GoodObj>>),
      JsonText("json", TRUE, <<GoodObj, FewPositives>>),
      JsonText("json", TRUE, <<ExtraField>>) }

\* One pass of `while attempt <= max_repairs`: the candidate validates and the
\* node returns it, or the model is asked for a repair, whose answer becomes
\* the candidate (llm.ainvoke may raise instead).
ValidateOrRepair ==
    /\ vr_pc = "loop"
    /\ repair_attempt <= max_repairs
    /\ IF validate_concepts_json(candidate_json)
       THEN /\ final_json' = candidate_json
            /\ error' = None
            /\ vr_pc' = "returned"
            /\ UNCHANGED <<repair_attempt, last_err, candidate_json>>
       ELSE /\ last_err' = ErrorOf(candidate_json)
            /\ \/ \E resp \in LlmAnswers :
                    /\ candidate_json' = resp
                    /\ repair_attempt' = repair_attempt + 1
                    /\ vr_pc' = vr_pc
               \/ /\ vr_pc' = "raised"
                  /\ UNCHANGED <<repair_attempt, candidate_json>>
            /\ UNCHANGED <<final_json, error>>
    /\ UNCHANGED max_repairs
    /\ UNCHANGED <<cacheVars, runVars, httpVars, pmVars, wrVars, snapVars, toolVars>>

\* The statements after the loop: the candidate is stored as it is.
RepairsExhausted ==
    /\ vr_pc = "loop"
    /\ ~(repair_attempt <= max_repairs)
    /\ final_json' = candidate_json
    /\ error' = last_err
    /\ vr_pc' = "returned"
    /\ UNCHANGED <<max_repairs, repair_attempt, last_err, candidate_json>>
    /\ UNCHANGED <<cacheVars, runVars, httpVars, pmVars, wrVars, snapVars, toolVars>>

\* The node is entered with the candidate node_synthesize stored (or none).
InitRepair ==
    /\ InitCacheVars
    /\ InitRunVarsIdle
    /\ InitHttpVarsIdle
    /\ InitPmVarsIdle
    /\ InitWrVarsIdle
    /\ InitSnapVarsIdle
    /\ InitToolVarsIdle
    /\ vr_pc = "loop"
    /\ max_repairs \in 0..DefaultMaxRepairs
    /\ repair_attempt = 0
    /\ last_err = None
    /\ candidate_json \in LlmAnswers \cup {NoJson}
    /\ final_json = NoJson
    /\ error = None

NextRepair == ValidateOrRepair \/ RepairsExhausted
SpecRepair == InitRepair /\ [][NextRepair]_vars

\* C37 (as stated): when the node has returned, error is None exactly when
\* final_json passes validate_concepts_json.
C37_AsStated ==
    vr_pc = "returned" => ((error = None) <=> validate_concepts_json(final_json))

(***************************************************************************)
(*   THE TOOL HELPERS execute_search (search.py), run_extraction           *)
(*   (extraction.py); keywords are tuples of characters here               *)
(***************************************************************************)

\* The keys of the providers table handed to execute_search (two of them).
Providers == {"pubmed", "europe_pmc"}

ToolKeywords == { <<"k", "1">>, <<" ", "k", "1", " ">>, <<" ">> }
ToolSources == Providers \cup {"unknown"}

\* What the provider answers when it is called: it raises, or returns a list of
\* results whose title and url are strings; two of the results share both.
ProviderAnswers ==
    { [ok |-> FALSE, results |-> <<>>],
      [ok |-> TRUE,  results |-> <<>>],
      [ok |-> TRUE,  results |-> <<[title |-> "a", url |-> "u", snippet |-> "s1"]>>],
      [ok |-> TRUE,  results |-> <<[title |-> "a", url |-> "u", snippet |-> "s1"],
                                   [title |-> "a", url |-> "u", snippet |-> "s2"]>>],
      [ok |-> TRUE,  results |-> <<[title |-> "a", url |-> "u", snippet |-> "s1"],
                                   [title |-> "a", url |-> "", snippet |-> "s1"]>>] }

SearchErrorMutantBlankAllowed(keyword, source, answer) ==
    source \notin Providers \/ ~answer.ok

\* execute_search answers {"status": "error"}: the stripped keyword is empty,
\* run_provider raises ValueError for the source, or the provider raises.
SearchError(keyword, source, answer) ==
    keyword = <<>> \/ source \notin Providers \/ ~answer.ok

\* execute_search(keyword, source, ...)
ExecuteSearch == \E keyword \in ToolKeywords, source \in ToolSources, answer \in ProviderAnswers :
    LET kw == Strip(keyword)
        id == NextRowid(sqlite_sequence.searches)
        out == BulkInsert(results, sqlite_sequence.results, id, answer.results)
        call == [op |-> "execute_search", keyword |-> keyword, source |-> source,
                 search_id |-> NoId, results |-> answer.results, raised |-> ~answer.ok,
                 status |-> "error", resolved |-> NoId,
                 results_returned |-> 0, results_stored |-> 0, total_cached |-> 0] IN
    /\ IF SearchError(kw, source, answer)
       THEN /\ tool_out' = call
            /\ UNCHANGED cacheVars
       ELSE /\ WriteResults(kw, source, answer.results)
            /\ tool_out' = [call EXCEPT !.status = "ok", !.resolved = id,
                                !.results_returned = Len(answer.results),
                                !.results_stored = out.count,
                                !.total_cached =
                                    Cardinality({r \in out.rows : r.search_id = id})]
    /\ UNCHANGED <<runVars, httpVars, pmVars, wrVars, snapVars, repairVars>>

\* The ids _select_search may return; none when it raises ValueError.
_select_search(keyword, source, search_id) ==
    IF search_id # NoId
    THEN {search.id : search \in
            {row \in SeqToSet(searches) :
                /\ row.id = search_id
                /\ row.keyword = keyword
                /\ source \in {None, ""} \/ row.source = source}}
    ELSE {listed[1].id : listed \in ListSearches(keyword, source) \ {<<>>}}

\* The keywords run_extraction is called with: a cached one and another.
ExtractionKeywords == { <<"k", "1">>, <<"k", "2">> }

\* run_extraction(keyword, source, search_id, ...) with the default payload
RunExtraction == \E keyword \in ExtractionKeywords,
                    source \in Providers \cup {None},
                    search_id \in SearchIds \cup {NoId} :
    LET selected == _select_search(keyword, source, search_id)
        call == [op |-> "run_extraction", keyword |-> keyword, source |-> source,
                 search_id |-> search_id, results |-> <<>>, raised |-> FALSE,
                 status |-> "ValueError", resolved |-> NoId,
                 results_returned |-> 0, results_stored |-> 0, total_cached |-> 0] IN
    /\ IF selected = {}
       THEN /\ tool_out' = call
            /\ UNCHANGED cacheVars
       ELSE \E sel \in selected :
            IF ListResults(sel) = {}
            THEN /\ tool_out' = [call EXCEPT !.resolved = sel]
                 /\ UNCHANGED cacheVars
            ELSE /\ InsertExtraction(sel, keyword, PayloadDict(EmptyExtraction))
                 /\ tool_out' = [call EXCEPT !.status = "ok", !.resolved = sel]
    /\ UNCHANGED <<runVars, httpVars, pmVars, wrVars, snapVars, repairVars>>

NextTools == ExecuteSearch \/ RunExtraction
SpecTools == InitCache /\ [][NextTools]_vars

\* C39: a successful execute_search adds exactly one row to searches, the one
\* whose id it reports, with the stripped keyword and the source; it reports
\* results_stored = total_cached = the number of distinct (title, url) pairs of
\* the provider's results = the number of rows it added under that id, which is
\* at most results_returned and 0 for an empty list.
C39_OneSearchDistinctPairsStored ==
    /\ []((tool_out.op = "execute_search" /\ tool_out.status = "ok") =>
            /\ tool_out.results_returned = Len(tool_out.results)
            /\ tool_out.results_stored = tool_out.total_cached
            /\ tool_out.results_stored =
                  Cardinality({<<tool_out.results[i].title, tool_out.results[i].url>> :
                                  i \in 1..Len(tool_out.results)})
            /\ tool_out.results_stored <= tool_out.results_returned
            /\ tool_out.results = <<>> => tool_out.results_stored = 0
            /\ tool_out.results_stored =
                  Cardinality({r \in results : r.search_id = tool_out.resolved}))
    /\ [][(tool_out'.op = "execute_search" /\ tool_out'.status = "ok") =>
            /\ Len(searches') = Len(searches) + 1
            /\ SubSeq(searches', 1, Len(searches)) = searches
            /\ searches'[Len(searches')].id = tool_out'.resolved
            /\ searches'[Len(searches')].keyword = Strip(tool_out'.keyword)
            /\ searches'[Len(searches')].source = tool_out'.source
            /\ \A i \in 1..Len(searches) : searches[i].id # tool_out'.resolved]_vars

\* C39 witness: a successful execute_search whose provider returned two results
\* with the same title and url: one row stored of two returned.
C39_Witness ==
    /\ tool_out.op = "execute_search"
    /\ tool_out.status = "ok"
    /\ tool_out.results_returned = 2
    /\ tool_out.results_stored = 1
    /\ Len(searches) = 2

\* run_extraction must fail for the call: the search_id is unknown, or its
\* search has another keyword or (a source being given) another source; or no
\* search is cached for the keyword (and source); or the selected search has
\* no results.
ExtractionMustFail(call) ==
    \/ /\ call.search_id # NoId
       /\ \/ \A i \in 1..Len(searches) : searches[i].id # call.search_id
          \/ \E i \in 1..Len(searches) :
                /\ searches[i].id = call.search_id
                /\ \/ searches[i].keyword # call.keyword
                   \/ call.source \notin {None, ""} /\ searches[i].source # call.source
          \/ \A r \in results : r.search_id # call.search_id
    \/ /\ call.search_id = NoId
       /\ \/ \A i \in 1..Len(searches) :
                \/ searches[i].keyword # call.keyword
                \/ call.source \notin {None, ""} /\ searches[i].source # call.source
          \/ \A r \in results : r.search_id # call.resolved

\* C40: an execute_search whose keyword is blank, whose source is unknown or
\* whose provider raises answers the error status, and a run_extraction that
\* must fail raises ValueError; and every call that answers so leaves searches,
\* results and extractions as they were.
C40_FailedCallLeavesStore ==
    [][/\ (tool_out'.op = "execute_search"
            /\ \/ Strip(tool_out'.keyword) = <<>>
               \/ tool_out'.source \notin Providers
               \/ tool_out'.raised)
          => tool_out'.status = "error"
       /\ (tool_out'.op = "run_extraction" /\ ExtractionMustFail(tool_out'))
          => tool_out'.status = "ValueError"
       /\ tool_out'.status \in {"error", "ValueError"}
          => /\ searches' = searches
             /\ results' = results
             /\ extractions' = extractions
             /\ sqlite_sequence' = sqlite_sequence]_vars

\* C40 witness: run_extraction has failed on a store that holds searches and
\* results, for a search that is cached but has no results.
C40_Witness ==
    /\ tool_out.op = "run_extraction"
    /\ tool_out.status = "ValueError"
    /\ tool_out.resolved # NoId
    /\ results # {}
    /\ Len(searches) = 2

\* C40, the other cases: a failed execute_search on a store that holds a search,
\* for a blank keyword, for an unknown source, and for a provider that raised.
C40_BlankKeyword ==
    /\ tool_out.op = "execute_search" /\ tool_out.status = "error"
    /\ Strip(tool_out.keyword) = <<>> /\ searches # <<>>
C40_UnknownSource ==
    /\ tool_out.op = "execute_search" /\ tool_out.status = "error"
    /\ tool_out.source \notin Providers /\ searches # <<>>
C40_ProviderRaised ==
    /\ tool_out.op = "execute_search" /\ tool_out.status = "error"
    /\ Strip(tool_out.keyword) # <<>> /\ tool_out.source \in Providers
    /\ tool_out.raised /\ searches # <<>>

====
